---- MODULE Spec2Model ----
(***************************************************************************)
(* Model of the request-caching and query-decomposition engine of          *)
(* BaseAPIInterface (src/src/base.py) as used by StringInterface           *)
(* (src/src/stringdb.py) and BioGRIDInterface (src/src/biogrid.py).        *)
(*                                                                         *)
(* Python values are tagged records: [str |-> s], [int |-> n],             *)
(* [list |-> <<v1, ..>>], [dict |-> <<<<k1, v1>>, ..>>] (a dict keeps its  *)
(* insertion order, as in Python) and [none |-> TRUE].                     *)
(***************************************************************************)
EXTENDS Integers, Sequences, FiniteSets, TLC

\* ------------------------------------------------------------------------
\* Bounds of the model
\* ------------------------------------------------------------------------
MaxBatch == 2        \* queries in one fetch_batch call
MaxList == 2         \* elements of a list-valued parameter

\* ------------------------------------------------------------------------
\* Python values
\* ------------------------------------------------------------------------
PStr(s) == [str |-> s]
PInt(n) == [int |-> n]
PList(xs) == [list |-> xs]
PDict(items) == [dict |-> items]
PNone == [none |-> TRUE]
\* the element of a list that is the list itself (printed as [...])
PSelf == [self |-> TRUE]

IsStr(v) == DOMAIN v = {"str"}
IsInt(v) == DOMAIN v = {"int"}
IsList(v) == DOMAIN v = {"list"}
IsDict(v) == DOMAIN v = {"dict"}
IsNone(v) == DOMAIN v = {"none"}
IsSelf(v) == DOMAIN v = {"self"}

\* Python truthiness of a value (`if raw:`, `if not partial_result:`)
Truthy(v) ==
    IF IsStr(v) THEN v.str # ""
    ELSE IF IsInt(v) THEN v.int # 0
    ELSE IF IsList(v) THEN v.list # <<>>
    ELSE IF IsDict(v) THEN v.dict # <<>>
    ELSE FALSE

\* dict helpers: k in d, d[k], d[k] = v (keeps the position of an existing key)
DictKeys(d) == {d.dict[i][1] : i \in 1..Len(d.dict)}
DictHas(d, k) == k \in DictKeys(d)
DictGet(d, k) == d.dict[CHOOSE i \in 1..Len(d.dict) : d.dict[i][1] = k][2]
DictSet(d, k, v) ==
    IF DictHas(d, k)
    THEN PDict([i \in 1..Len(d.dict) |->
                 IF d.dict[i][1] = k THEN <<k, v>> ELSE d.dict[i]])
    ELSE PDict(Append(d.dict, <<k, v>>))
DictValues(d) == [i \in 1..Len(d.dict) |-> d.dict[i][2]]

\* Lexicographic order of the strings the model uses, as Python compares them
StrOrder == <<"10090", "9606", "MolecularFormula", "MolecularWeight",
              "P1", "P2", "accessKey", "cid", "compound", "download",
              "echo_query",
              "format", "get_string_ids", "human", "identifiers",
              "interaction_partners", "json", "k1", "method", "ncbiTaxonId",
              "option", "outfmt", "parse", "property", "queryItem", "species",
              "tags", "tsv">>
Rank(s) == CHOOSE i \in 1..Len(StrOrder) : StrOrder[i] = s

\* v < w for two strings or two integers (lists in the model are homogeneous)
ValLt(v, w) ==
    IF IsStr(v) /\ IsStr(w) THEN Rank(v.str) < Rank(w.str)
    ELSE IF IsInt(v) /\ IsInt(w) THEN v.int < w.int
    ELSE FALSE

RECURSIVE InsertValue(_, _)
InsertValue(x, s) ==
    IF s = <<>> THEN <<x>>
    ELSE IF ValLt(x, Head(s)) THEN <<x>> \o s
    ELSE <<Head(s)>> \o InsertValue(x, Tail(s))

\* sorted(v) for a list of strings or of integers (insertion sort, stable)
RECURSIVE SortedValues(_)
SortedValues(s) ==
    IF s = <<>> THEN <<>>
    ELSE InsertValue(s[Len(s)], SortedValues(SubSeq(s, 1, Len(s) - 1)))

RECURSIVE InsertItem(_, _)
InsertItem(p, s) ==
    IF s = <<>> THEN <<p>>
    ELSE IF Rank(p[1]) < Rank(Head(s)[1]) THEN <<p>> \o s
    ELSE <<Head(s)>> \o InsertItem(p, Tail(s))

\* sorted(d.items()): the keys of a dict are distinct, so the key decides
RECURSIVE SortedItems(_)
SortedItems(s) ==
    IF s = <<>> THEN <<>>
    ELSE InsertItem(s[Len(s)], SortedItems(SubSeq(s, 1, Len(s) - 1)))

\* sep.join(parts)
RECURSIVE Join(_, _)
Join(parts, sep) ==
    IF parts = <<>> THEN ""
    ELSE IF Len(parts) = 1 THEN parts[1]
    ELSE parts[1] \o sep \o Join(Tail(parts), sep)

\* repr(v) and str(v)
RECURSIVE PyRepr(_)
PyRepr(v) ==
    IF IsStr(v) THEN "'" \o v.str \o "'"
    ELSE IF IsInt(v) THEN ToString(v.int)
    ELSE IF IsNone(v) THEN "None"
    ELSE IF IsSelf(v) THEN "[...]"
    ELSE IF IsList(v)
         THEN "[" \o Join([i \in 1..Len(v.list) |-> PyRepr(v.list[i])], ", ") \o "]"
    ELSE "{" \o Join([i \in 1..Len(v.dict) |->
                        "'" \o v.dict[i][1] \o "': " \o PyRepr(v.dict[i][2])], ", ") \o "}"

PyStr(v) == IF IsStr(v) THEN v.str ELSE PyRepr(v)

\* json.dumps(v, sort_keys=True)
RECURSIVE json_dumps(_)
json_dumps(v) ==
    IF IsStr(v) THEN "\"" \o v.str \o "\""
    ELSE IF IsInt(v) THEN ToString(v.int)
    ELSE IF IsNone(v) THEN "null"
    ELSE IF IsList(v)
         THEN "[" \o Join([i \in 1..Len(v.list) |-> json_dumps(v.list[i])], ", ") \o "]"
    ELSE LET items == SortedItems(v.dict)
         IN "{" \o Join([i \in 1..Len(items) |->
                           "\"" \o items[i][1] \o "\": " \o json_dumps(items[i][2])], ", ") \o "}"

\* ------------------------------------------------------------------------
\* Services
\* ------------------------------------------------------------------------
cache_key_ignore_args ==
    {"parse", "to_dataframe", "fields_to_extract", "config_key",
     "pages_to_fetch", "outfmt", "format", "download"}

\* the ignore set without the additions of the service
get_cache_ignore_keys_base(self) == cache_key_ignore_args

get_cache_ignore_keys(self) ==
    IF self = "BioGRIDInterface" THEN cache_key_ignore_args \cup {"accessKey"}
    ELSE cache_key_ignore_args

get_subquery_match_keys(self) ==
    IF self = "BioGRIDInterface" THEN {"id", "geneList", "taxId"} ELSE {}

\* METHODS of StringInterface; a parameter is <<name, typ, default, is_id>>
StringMethodSpec(network) ==
    [parameters |-> IF network
                    THEN << <<"identifiers", "str", PNone, TRUE>>,
                            <<"species", "int", PNone, FALSE>>,
                            <<"limit", "int", PNone, FALSE>>,
                            <<"required_score", "int", PNone, FALSE>>,
                            <<"network_type", "str", PStr("functional"), FALSE>> >>
                    ELSE << <<"identifiers", "str", PNone, TRUE>>,
                            <<"species", "int", PNone, FALSE>>,
                            <<"echo_query", "int", PInt(0), FALSE>>,
                            <<"format", "str", PStr("json"), FALSE>> >>,
     group_queries |-> <<"identifiers", "species">>,
     separator |-> "%0d"]

\* METHODS["compound"] of PubChemInterface
PubChemCompoundSpec ==
    [parameters |-> << <<"cid", "str", PNone, TRUE>>,
                       <<"name", "str", PNone, TRUE>>,
                       <<"smiles", "str", PNone, TRUE>>,
                       <<"property", "str", PNone, TRUE>> >>,
     group_queries |-> <<"cid", "property">>,
     separator |-> ","]

METHODS(self) ==
    IF self = "StringInterface"
    THEN [m \in {"get_string_ids", "interaction_partners"} |->
            StringMethodSpec(m = "interaction_partners")]
    ELSE IF self = "PubChemInterface"
    THEN [m \in {"compound"} |-> PubChemCompoundSpec]
    ELSE <<>>

\* ------------------------------------------------------------------------
\* Key Canonicalizer
\* ------------------------------------------------------------------------
NoDictElement(xs) == \A i \in 1..Len(xs) : ~IsDict(xs[i])

_filter_dict_keys(self, input_dict) ==
    LET items == SortedItems(input_dict.dict)
        Filtered(kept) ==
            PDict([i \in 1..Len(kept) |->
                     IF IsList(kept[i][2]) /\ NoDictElement(kept[i][2].list)
                     THEN <<kept[i][1], PList(SortedValues(kept[i][2].list))>>
                     ELSE kept[i]])
    IN Filtered(SelectSeq(items, LAMBDA p : p[1] \notin get_cache_ignore_keys(self)))

_make_cache_key(self, input_obj, kwargs) ==
    LET base == IF IsDict(input_obj)
                THEN json_dumps(_filter_dict_keys(self, input_obj))
                ELSE IF IsStr(input_obj) THEN input_obj.str
                ELSE json_dumps(input_obj)
        Extra(relevant_kwargs) ==
            IF relevant_kwargs.dict # <<>>
            THEN Join([i \in 1..Len(relevant_kwargs.dict) |->
                         PyStr(relevant_kwargs.dict[i][2])], "_")
            ELSE ""
        Key(b, extra) ==
            IF b # "" /\ extra # "" THEN b \o "_" \o extra
            ELSE IF b # "" THEN b
            ELSE extra
    IN Key(base, Extra(_filter_dict_keys(self, kwargs)))

\* ------------------------------------------------------------------------
\* Method specifications and the Parameter Preparer
\* ------------------------------------------------------------------------
Raise(e) == [exc |-> e]
Raised(r) == DOMAIN r = {"exc"}

ParamNames(spec) == [i \in 1..Len(spec.parameters) |-> spec.parameters[i][1]]
InSeq(x, s) == \E i \in 1..Len(s) : s[i] = x

\* kwargs.get("method", None) / kwargs.get("option", None)
KwGetDefault(kwargs, k, default) ==
    IF DictHas(kwargs, k) THEN DictGet(kwargs, k) ELSE default
KwGet(kwargs, k) == KwGetDefault(kwargs, k, PNone)

\* METHODS[method].get(option, {}): none of the modelled METHODS has options,
\* so a truthy option yields the empty spec {}
EmptySpec == [parameters |-> <<>>, group_queries |-> <<>>, separator |-> ",",
              empty |-> TRUE]

_get_method_spec(self, kwargs) ==
    LET method == KwGet(kwargs, "method")
        option == KwGet(kwargs, "option")
    IN IF ~(IsStr(method) /\ method.str \in DOMAIN METHODS(self))
       THEN Raise("ValueError")
       ELSE IF Truthy(option) THEN EmptySpec
            ELSE METHODS(self)[method.str]

AllStr(xs) == \A i \in 1..Len(xs) : IsStr(xs[i])

\* the steps of the loop of _prepare_params over spec["parameters"]
RECURSIVE PrepareFrom(_, _, _, _, _)
PrepareFrom(i, params, query, spec, overrides) ==
    IF i > Len(spec.parameters) THEN params
    ELSE LET name == spec.parameters[i][1]
             default == spec.parameters[i][3]
             is_id == spec.parameters[i][4]
             val0 == IF IsDict(query) /\ DictHas(query, name) THEN DictGet(query, name)
                     ELSE IF ~IsDict(query) /\ is_id THEN query
                     ELSE default
             Set(val) ==
                 IF IsNone(val) /\ IsNone(default)
                 THEN PrepareFrom(i + 1, params, query, spec, overrides)
                 ELSE IF IsList(val) /\ InSeq(name, spec.group_queries)
                      THEN IF AllStr(val.list)
                           THEN PrepareFrom(i + 1,
                                  DictSet(params, name,
                                     PStr(Join([j \in 1..Len(val.list) |-> val.list[j].str],
                                               spec.separator))),
                                  query, spec, overrides)
                           ELSE Raise("TypeError")
                      ELSE PrepareFrom(i + 1, DictSet(params, name, val), query, spec,
                                       overrides)
         IN Set(IF DictHas(overrides, name) THEN DictGet(overrides, name) ELSE val0)

_prepare_params(query, spec, overrides) == PrepareFrom(1, PDict(<<>>), query, spec, overrides)

_make_identifier(query, spec) ==
    LET keys == SelectSeq(spec.parameters, LAMBDA p : p[4])
        present == SelectSeq(keys, LAMBDA p : DictHas(query, p[1]))
    IN IF IsDict(query)
       THEN Join([i \in 1..Len(present) |-> PyStr(DictGet(query, present[i][1]))], "_")
       ELSE PyStr(query)

\* ------------------------------------------------------------------------
\* Query Decomposer
\* ------------------------------------------------------------------------
\* itertools.product(*lists): the last list varies fastest
RECURSIVE product(_)
product(lists) ==
    IF lists = <<>> THEN << <<>> >>
    ELSE LET rest == product(Tail(lists))
             first == Head(lists)
         IN [n \in 1..(Len(first) * Len(rest)) |->
               <<first[((n - 1) \div Len(rest)) + 1]>> \o rest[((n - 1) % Len(rest)) + 1]]

Min(a, b) == IF a < b THEN a ELSE b

\* for key, value in zip(group_queries, combo): subquery[key] = value
RECURSIVE ZipSet(_, _, _, _)
ZipSet(i, subquery, group_queries, combo) ==
    IF i > Min(Len(group_queries), Len(combo)) THEN subquery
    ELSE ZipSet(i + 1, DictSet(subquery, group_queries[i], combo[i]), group_queries, combo)

\* the list of (identifier, subquery) tuples that decompose_query returns
Subqueries(sqs) == [subqueries |-> sqs]

decompose_query(self, query, method, option) ==
    IF method \notin DOMAIN METHODS(self) THEN Raise("ValueError")
    ELSE IF Truthy(option) THEN Raise("ValueError")
    ELSE
    LET Values(listed) == product([i \in 1..Len(listed) |-> DictGet(query, listed[i]).list])
        Build(group_queries, keys, value_combinations) ==
            LET others == SelectSeq(keys, LAMBDA k : ~InSeq(k, group_queries))
            IN IF ~\E i \in 1..Len(keys) : InSeq(keys[i], group_queries)
               THEN Subqueries(<<>>)
               ELSE Subqueries([c \in 1..Len(value_combinations) |->
                       LET combo == value_combinations[c]
                           n == Min(Len(group_queries), Len(combo))
                           identifier_parts ==
                               [i \in 1..n |-> PyStr(combo[i])]
                               \o [i \in 1..Len(others) |-> PyStr(DictGet(query, others[i]))]
                       IN <<Join(identifier_parts, "_"),
                            ZipSet(1, query, group_queries, combo)>>])
        Decompose(method_spec) ==
            LET group_queries == method_spec.group_queries
                idparams == SelectSeq(method_spec.parameters,
                                      LAMBDA p : p[4] /\ DictHas(query, p[1]))
                keys == [i \in 1..Len(idparams) |-> idparams[i][1]]
                listed == SelectSeq(group_queries,
                                    LAMBDA k : DictHas(query, k) /\ IsList(DictGet(query, k)))
            IN Build(group_queries, keys, Values(listed))
    IN Decompose(METHODS(self)[method])

\* v is the list object that cur is: the dicts merged are the shallow copies
\* decompose_query made of one query, so a list value they carry under one
\* key is the one list object of the query, before or after merge_dicts
\* appended to it
SameObject(cur, v) ==
    /\ IsList(cur)
    /\ IsList(v)
    /\ \/ cur = v
       \/ cur.list = Append(v.list, PSelf)

\* one step of merge_dicts: merging the item (k, v) into merged.  When v is
\* the list object that merged[k] already is, `v not in merged[k]` holds
\* until the list contains itself, and the list is appended to itself.
MergeItem(merged, k, v) ==
    IF ~DictHas(merged, k) THEN DictSet(merged, k, v)
    ELSE LET cur == DictGet(merged, k)
         IN IF SameObject(cur, v)
            THEN IF InSeq(PSelf, cur.list) THEN merged
                 ELSE DictSet(merged, k, PList(Append(cur.list, PSelf)))
            ELSE IF IsList(cur)
            THEN IF InSeq(v, cur.list) THEN merged
                 ELSE DictSet(merged, k, PList(Append(cur.list, v)))
            ELSE IF cur # v THEN DictSet(merged, k, PList(<<cur, v>>))
                 ELSE merged

RECURSIVE MergeOne(_, _, _)
MergeOne(merged, d, j) ==
    IF j > Len(d.dict) THEN merged
    ELSE MergeOne(MergeItem(merged, d.dict[j][1], d.dict[j][2]), d, j + 1)

RECURSIVE MergeFrom(_, _, _)
MergeFrom(merged, dicts, i) ==
    IF i > Len(dicts) THEN merged
    ELSE MergeFrom(MergeOne(merged, dicts[i], 1), dicts, i + 1)

\* a merge that keeps the first dict only
merge_first(dicts) == IF dicts = <<>> THEN PDict(<<>>) ELSE dicts[1]

merge_dicts(dicts) == MergeFrom(PDict(<<>>), dicts, 1)

\* a dict that shares its list values with the dicts merged, as it reads
\* after merge_dicts: a list appended to itself is changed in the dict too
Mutated(d, merged) ==
    PDict([i \in 1..Len(d.dict) |->
             IF /\ IsList(d.dict[i][2])
                /\ DictHas(merged, d.dict[i][1])
                /\ SameObject(DictGet(merged, d.dict[i][1]), d.dict[i][2])
             THEN <<d.dict[i][1], DictGet(merged, d.dict[i][1])>>
             ELSE d.dict[i]])

\* ------------------------------------------------------------------------
\* Result Splitter
\* ------------------------------------------------------------------------
\* str.lower() on the strings of the model
Lower(s) == IF s = "P1" THEN "p1" ELSE IF s = "P2" THEN "p2" ELSE s

\* [t.lower() for t in re.split(r"[\s:\-/|]", s) if t]; no string of the model
\* contains one of the separator characters
SplitTokens(s) == IF s = "" THEN {} ELSE {Lower(s)}

\* normalize(str(v).lower()) for a parameter value v: the string of a list is
\* read back by ast.literal_eval and its elements are normalized in turn
RECURSIVE normalize(_)
normalize(v) ==
    IF IsSelf(v) THEN {"ellipsis"}
    ELSE IF IsList(v) THEN UNION {normalize(v.list[i]) : i \in 1..Len(v.list)}
    ELSE IF IsDict(v) THEN SplitTokens(PyRepr(v))
    ELSE SplitTokens(PyStr(v))

\* set(normalize(extract_all_values(obj))): the string and number leaves
RECURSIVE extract_all_values(_)
extract_all_values(obj) ==
    IF IsDict(obj) THEN UNION {extract_all_values(obj.dict[i][2]) : i \in 1..Len(obj.dict)}
    ELSE IF IsList(obj) THEN UNION {extract_all_values(obj.list[i]) : i \in 1..Len(obj.list)}
    ELSE IF IsStr(obj) \/ IsInt(obj) THEN SplitTokens(PyStr(obj))
    ELSE {}

\* the token set of get_matching_values(query)
get_matching_values(self, query) ==
    LET match == get_subquery_match_keys(self)
        keys == IF match # {} THEN match
                ELSE DictKeys(query) \ get_cache_ignore_keys(self)
    IN UNION {normalize(DictGet(query, k)) :
                k \in {kk \in keys : DictHas(query, kk) /\ ~IsNone(DictGet(query, kk))}}

\* subquery_values[identifier]: the last SubQuery with that identifier decides
ExpectedTokens(self, subqueries, identifier) ==
    LET last == CHOOSE i \in 1..Len(subqueries) :
                   /\ subqueries[i][1] = identifier
                   /\ \A j \in (i + 1)..Len(subqueries) : subqueries[j][1] # identifier
    IN get_matching_values(self, subqueries[last][2])

\* a split that asks an item for every token of the SubQuery
split_results_contained(self, full_result, subqueries) ==
    IF ~(IsDict(full_result) \/ IsList(full_result)) THEN Raise("ValueError")
    ELSE LET items == IF IsDict(full_result) THEN <<full_result>> ELSE full_result.list
         IN [identifier \in {subqueries[i][1] : i \in 1..Len(subqueries)} |->
               SelectSeq(items, LAMBDA item :
                   ExpectedTokens(self, subqueries, identifier)
                     \subseteq extract_all_values(item))]

split_results_by_subquery(self, full_result, subqueries) ==
    IF ~(IsDict(full_result) \/ IsList(full_result)) THEN Raise("ValueError")
    ELSE LET items == IF IsDict(full_result) THEN <<full_result>> ELSE full_result.list
         IN [identifier \in {subqueries[i][1] : i \in 1..Len(subqueries)} |->
               SelectSeq(items, LAMBDA item :
                   ExpectedTokens(self, subqueries, identifier)
                     \cap extract_all_values(item) # {})]

\* ------------------------------------------------------------------------
\* Cache Store: cache maps the key of each cache file to its content
\* ------------------------------------------------------------------------
Corrupt == [corrupt |-> TRUE]
EmptyCache == <<>>

\* open(path, 'w') leaves an empty file until the data is written
Truncated == [truncated |-> TRUE]

\* a file of n bytes that starts with a JSON document and goes on with the
\* tail of a longer one written before it
Torn(n) == [torn |-> n]

\* json.load raises JSONDecodeError on the content
NoJSON(content) == content = Corrupt \/ content = Truncated \/ DOMAIN content = {"torn"}

\* the length of the file in bytes
FileSize(content) ==
    IF content = Truncated \/ content = Corrupt THEN 0
    ELSE IF DOMAIN content = {"torn"} THEN content.torn
    ELSE Len(json_dumps(content))

has_results(cache, identifier) == identifier \in DOMAIN cache

\* json.load raises on a file that holds no JSON document
load_cache(cache, identifier) ==
    IF has_results(cache, identifier)
    THEN IF NoJSON(cache[identifier]) THEN Raise("JSONDecodeError")
         ELSE cache[identifier]
    ELSE PNone

\* a save whose write is lost
save_cache_lost(cache, identifier, data) == cache

save_cache(cache, identifier, data) == (identifier :> data) @@ cache

\* the first half of save_cache on a pool thread: open(path, 'w') creates the
\* file or cuts it to length 0
save_cache_open(cache, identifier) == (identifier :> Truncated) @@ cache

\* the second half: json.dump and the close of the file write the bytes of
\* data from offset 0 and leave what lies beyond them, the bytes another
\* thread wrote since the open
save_cache_write(cache, identifier, data) ==
    IF identifier \in DOMAIN cache /\ FileSize(cache[identifier]) > FileSize(data)
    THEN (identifier :> Torn(FileSize(cache[identifier]))) @@ cache
    ELSE (identifier :> data) @@ cache

\* ------------------------------------------------------------------------
\* The service behind fetch().  For each identifier the service answers with
\* one item ("ok") or with no item ("empty"), the request fails in transit
\* ("down": the RequestException is caught and fetch() returns {}), or
\* fetch() itself raises ("raise": the ValueError of a rejected request)
\* ------------------------------------------------------------------------
Modes == {"ok", "empty", "down", "raise"}

Ids == {"P1", "P2"}

RECURSIVE SeqsUpTo(_, _)
SeqsUpTo(S, n) ==
    IF n = 0 THEN {<<>>}
    ELSE LET shorter == SeqsUpTo(S, n - 1)
         IN shorter \cup {Append(xs, e) : xs \in {ys \in shorter : Len(ys) = n - 1}, e \in S}

\* the identifiers a joined wire parameter names; a list of up to MaxList
\* values is joined, and a repeated value is dropped by merge_dicts only
RequestedIds(params, separator) ==
    IF DictHas(params, "identifiers")
    THEN CHOOSE xs \in SeqsUpTo(Ids, MaxList) :
            Join(xs, separator) = DictGet(params, "identifiers").str
    ELSE <<>>

Item(id, species) ==
    PDict(<< <<"queryItem", PStr(id)>>, <<"ncbiTaxonId", species>> >>)

\* isinstance(value, expected_type) for the types str and int
IsInstance(value, typ) ==
    IF typ = "str" THEN IsStr(value)
    ELSE IF typ = "int" THEN IsInt(value)
    ELSE FALSE

\* validate_parameters(inputs, param_schema): an input outside the schema is
\* a ValueError, an input of the wrong type a TypeError
validate_parameters(inputs, param_schema) ==
    IF \E k \in DictKeys(inputs) : \A i \in 1..Len(param_schema) : param_schema[i][1] # k
    THEN Raise("ValueError")
    ELSE IF \E i \in 1..Len(param_schema) :
               /\ DictHas(inputs, param_schema[i][1])
               /\ ~IsInstance(DictGet(inputs, param_schema[i][1]), param_schema[i][2])
    THEN Raise("TypeError")
    ELSE inputs

\* a fetch that answers {} where the service fails, as it does for a
\* RequestException
fetch_swallowed(service, params, separator) ==
    LET species == IF DictHas(params, "species") THEN DictGet(params, "species")
                   ELSE PInt(9606)
        Items(known) == PList([i \in 1..Len(known) |-> Item(known[i], species)])
        Answer(ids) ==
            IF \E i \in 1..Len(ids) : service[ids[i]] \in {"raise", "down"}
            THEN PDict(<<>>)
            ELSE Items(SelectSeq(ids, LAMBDA id : service[id] = "ok"))
    IN IF Raised(validate_parameters(params, StringMethodSpec(FALSE).parameters))
       THEN Raise("ValueError")
       ELSE Answer(RequestedIds(params, separator))

\* StringInterface.fetch with method="get_string_ids": the parameters are
\* validated, then the request is sent
fetch(service, params, separator) ==
    LET species == IF DictHas(params, "species") THEN DictGet(params, "species")
                   ELSE PInt(9606)
        Items(known) == PList([i \in 1..Len(known) |-> Item(known[i], species)])
        Answer(ids) ==
            IF \E i \in 1..Len(ids) : service[ids[i]] = "raise"
            THEN Raise("ValueError")
            ELSE IF \E i \in 1..Len(ids) : service[ids[i]] = "down"
            THEN PDict(<<>>)
            ELSE Items(SelectSeq(ids, LAMBDA id : service[id] = "ok"))
    IN IF Raised(validate_parameters(params, StringMethodSpec(FALSE).parameters))
       THEN Raise("ValueError")
       ELSE Answer(RequestedIds(params, separator))

\* ------------------------------------------------------------------------
\* Fetch Orchestrator: fetch_single in three phases.  Lookup runs up to the
\* call of fetch(), Complete runs from its return to the end.
\* ------------------------------------------------------------------------
NoPlan ==
    [kind |-> "none", exc |-> "", result |-> PNone, request |-> PNone,
     decomposed |-> FALSE, results |-> PDict(<<>>), remaining |-> <<>>,
     cache_key |-> "", separator |-> "", query |-> PNone]

PlanRaise(e) == [NoPlan EXCEPT !.kind = "raise", !.exc = e]
PlanHit(v) == [NoPlan EXCEPT !.kind = "hit", !.result = v]

SubKey(self, sq, kwargs) == _make_cache_key(self, PStr(sq[1]), kwargs)

\* results[identifier] = parsed for the SubQueries found in the cache
RECURSIVE CollectHits(_, _, _, _, _)
CollectHits(self, cache, hits, kwargs, results) ==
    IF hits = <<>> THEN results
    ELSE CollectHits(self, cache, Tail(hits), kwargs,
            DictSet(results, Head(hits)[1],
                    load_cache(cache, SubKey(self, Head(hits), kwargs))))

LookupDecomposed(self, cache, query, kwargs, spec) ==
    LET method == PyStr(KwGetDefault(kwargs, "method", PStr("NOT_GIVEN")))
        Prepared(remaining, results, merged, params) ==
            IF Raised(params)
            THEN [PlanRaise(params.exc) EXCEPT !.query = Mutated(query, merged)]
            ELSE [NoPlan EXCEPT !.kind = "fetch", !.request = params,
                                !.decomposed = TRUE, !.results = results,
                                !.remaining =
                                    [i \in 1..Len(remaining) |->
                                       <<remaining[i][1], Mutated(remaining[i][2], merged)>>],
                                !.separator = spec.separator,
                                !.query = Mutated(query, merged)]
        Request(hits, remaining, results, merged) ==
            IF \E i \in 1..Len(hits) :
                  Raised(load_cache(cache, SubKey(self, hits[i], kwargs)))
            THEN PlanRaise("JSONDecodeError")
            ELSE IF remaining = <<>>
                 THEN PlanHit(PList(DictValues(results)))
            ELSE Prepared(remaining, results, merged,
                          _prepare_params(merged, spec, kwargs))
        Combined(hits, remaining) ==
            Request(hits, remaining,
                    CollectHits(self, cache, hits, kwargs, PDict(<<>>)),
                    merge_dicts([i \in 1..Len(remaining) |-> remaining[i][2]]))
        Scan(subqueries) ==
            Combined(SelectSeq(subqueries,
                        LAMBDA sq : has_results(cache, SubKey(self, sq, kwargs))),
                     SelectSeq(subqueries,
                        LAMBDA sq : ~has_results(cache, SubKey(self, sq, kwargs))))
        Decomposed(decomposed) ==
            IF Raised(decomposed) THEN PlanRaise(decomposed.exc)
            ELSE Scan(decomposed.subqueries)
    IN Decomposed(decompose_query(self, query, method, KwGet(kwargs, "option")))

LookupPlain(self, cache, query, kwargs, spec) ==
    LET identifier == _make_identifier(query, spec)
        Hit(raw) == IF Raised(raw) THEN PlanRaise(raw.exc) ELSE PlanHit(raw)
        Request(params, cache_key) ==
            IF Raised(params) THEN PlanRaise(params.exc)
            ELSE IF has_results(cache, cache_key)
                 THEN Hit(load_cache(cache, cache_key))
                 ELSE [NoPlan EXCEPT !.kind = "fetch", !.request = params,
                                     !.cache_key = cache_key,
                                     !.separator = spec.separator]
    IN Request(_prepare_params(query, spec, kwargs),
               _make_cache_key(self, PStr(identifier), kwargs))

\* the branch condition of fetch_single: group_key is the first entry of
\* group_queries and query[group_key] is a list
Decomposes(query, spec) ==
    /\ IsDict(query)
    /\ spec.group_queries # <<>>
    /\ DictHas(query, spec.group_queries[1])
    /\ IsList(DictGet(query, spec.group_queries[1]))

\* plan.query is the query object of the caller as the lookup leaves it
Lookup(self, cache, query, kwargs) ==
    LET Caller(plan) == IF IsNone(plan.query) THEN [plan EXCEPT !.query = query] ELSE plan
        Branch(spec) ==
            IF Raised(spec) THEN PlanRaise(spec.exc)
            ELSE IF "empty" \in DOMAIN spec THEN PlanRaise("KeyError")
            ELSE IF Decomposes(query, spec)
                 THEN LookupDecomposed(self, cache, query, kwargs, spec)
                 ELSE LookupPlain(self, cache, query, kwargs, spec)
    IN Caller(Branch(_get_method_spec(self, kwargs)))

\* the loop over remaining after the split: save and collect each non-empty
\* bucket; st is [cache, results]
RECURSIVE SaveBuckets(_, _, _, _, _)
SaveBuckets(self, st, remaining, mapping, kwargs) ==
    IF remaining = <<>> THEN st
    ELSE LET identifier == Head(remaining)[1]
             partial_result == PList(mapping[identifier])
         IN IF ~Truthy(partial_result)
            THEN SaveBuckets(self, st, Tail(remaining), mapping, kwargs)
            ELSE SaveBuckets(self,
                   [cache |-> save_cache(st.cache,
                                 _make_cache_key(self, PStr(identifier), kwargs),
                                 partial_result),
                    results |-> DictSet(st.results, identifier, partial_result)],
                   Tail(remaining), mapping, kwargs)

\* the outcome of a call: the cache it leaves and what it returns or raises
Outcome(cache, raised, value) == [cache |-> cache, raised |-> raised, value |-> value]

Complete(self, cache, plan, full, kwargs) ==
    LET Saved(st) == Outcome(st.cache, FALSE, PList(DictValues(st.results)))
        Split(mapping) ==
            IF Raised(mapping) THEN Outcome(cache, TRUE, PStr(mapping.exc))
            ELSE Saved(SaveBuckets(self, [cache |-> cache, results |-> plan.results],
                                   plan.remaining, mapping, kwargs))
    IN IF plan.decomposed
       THEN Split(split_results_by_subquery(self, full, plan.remaining))
       ELSE Outcome(IF Truthy(full) THEN save_cache(cache, plan.cache_key, full) ELSE cache,
                    FALSE, full)

\* the save_cache calls of Complete in their order, as <<key, data>>
RECURSIVE BucketWrites(_, _, _, _)
BucketWrites(self, remaining, mapping, kwargs) ==
    IF remaining = <<>> THEN <<>>
    ELSE LET identifier == Head(remaining)[1]
             partial_result == PList(mapping[identifier])
         IN (IF Truthy(partial_result)
             THEN << <<_make_cache_key(self, PStr(identifier), kwargs), partial_result>> >>
             ELSE <<>>)
            \o BucketWrites(self, Tail(remaining), mapping, kwargs)

Writes(self, plan, full, kwargs) ==
    LET Split(mapping) ==
            IF Raised(mapping) THEN <<>>
            ELSE BucketWrites(self, plan.remaining, mapping, kwargs)
    IN IF plan.decomposed
       THEN Split(split_results_by_subquery(self, full, plan.remaining))
       ELSE IF Truthy(full) THEN << <<plan.cache_key, full>> >> ELSE <<>>

\* fetch_single run by the calling thread: [cache, raised, value, fetched,
\* query], query being the caller's query object after the call
fetch_single(self, cache, service, query, kwargs) ==
    LET Return(plan, out) ==
            [cache |-> out.cache, raised |-> out.raised, value |-> out.value,
             fetched |-> <<plan.request>>, query |-> plan.query]
        Fetched(plan, full) ==
            IF Raised(full)
            THEN [cache |-> cache, raised |-> TRUE, value |-> PStr(full.exc),
                  fetched |-> <<plan.request>>, query |-> plan.query]
            ELSE Return(plan, Complete(self, cache, plan, full, kwargs))
        Run(plan) ==
            IF plan.kind = "raise"
            THEN [cache |-> cache, raised |-> TRUE, value |-> PStr(plan.exc),
                  fetched |-> <<>>, query |-> plan.query]
            ELSE IF plan.kind = "hit"
            THEN [cache |-> cache, raised |-> FALSE, value |-> plan.result,
                  fetched |-> <<>>, query |-> plan.query]
            ELSE Fetched(plan, fetch(service, plan.request, plan.separator))
    IN Run(Lookup(self, cache, query, kwargs))

\* the keys of the cache files fetch_single reads and writes for a query:
\* one per SubQuery in the decomposed branch, one for the query otherwise
QueryKeys(self, query, kwargs) ==
    LET method == PyStr(KwGetDefault(kwargs, "method", PStr("NOT_GIVEN")))
        SubKeys(subqueries) ==
            {SubKey(self, subqueries[i], kwargs) : i \in 1..Len(subqueries)}
        Keys(spec) ==
            IF Decomposes(query, spec)
            THEN SubKeys(decompose_query(self, query, method,
                                         KwGet(kwargs, "option")).subqueries)
            ELSE {_make_cache_key(self, PStr(_make_identifier(query, spec)), kwargs)}
    IN Keys(_get_method_spec(self, kwargs))

\* ------------------------------------------------------------------------
\* Fetch Orchestrator: the pre-scan of fetch_batch
\* ------------------------------------------------------------------------
\* the SubQueries the pre-scan derives from one query of the batch; the
\* empty list stands for None as well (`if subqueries:`)
BatchSubqueries(self, query, kwargs) ==
    IF IsDict(query)
    THEN decompose_query(self, query, PyStr(KwGetDefault(kwargs, "method", PStr("NOT_GIVEN"))),
                         KwGet(kwargs, "option"))
    ELSE IF IsList(query) /\ AllStr(query.list)
    THEN Subqueries([i \in 1..Len(query.list) |->
            <<query.list[i].str,
              PDict(<< <<"identifiers", PList(<<query.list[i]>>)>> >>)>>])
    ELSE Subqueries(<<>>)

\* the cache keys the pre-scan looks up for one query, in order
PrescanKeys(self, query, subqueries, kwargs) ==
    IF subqueries # <<>>
    THEN [j \in 1..Len(subqueries) |-> SubKey(self, subqueries[j], kwargs)]
    ELSE <<_make_cache_key(self, query, kwargs)>>

\* one iteration of the pre-scan loop; st is [results, index_query_map, exc]
PrescanQuery(self, cache, st, i, query, kwargs) ==
    LET Load(keys, hits) ==
            IF \E j \in 1..Len(hits) : Raised(load_cache(cache, hits[j]))
            THEN [st EXCEPT !.exc = "JSONDecodeError"]
            ELSE [st EXCEPT
                    !.results = st.results
                                  \o [j \in 1..Len(hits) |-> load_cache(cache, hits[j])],
                    !.index_query_map =
                        IF Len(hits) < Len(keys) THEN Append(st.index_query_map, i)
                        ELSE st.index_query_map]
        Scan(keys) == Load(keys, SelectSeq(keys, LAMBDA k : has_results(cache, k)))
        Decomposed(subqueries) ==
            IF Raised(subqueries) THEN [st EXCEPT !.exc = subqueries.exc]
            ELSE Scan(PrescanKeys(self, query, subqueries.subqueries, kwargs))
    IN Decomposed(BatchSubqueries(self, query, kwargs))

RECURSIVE PrescanFrom(_, _, _, _, _, _)
PrescanFrom(self, cache, st, i, queries, kwargs) ==
    IF i > Len(queries) \/ st.exc # "" THEN st
    ELSE PrescanFrom(self, cache,
                     PrescanQuery(self, cache, st, i, queries[i], kwargs),
                     i + 1, queries, kwargs)

Prescan(self, cache, queries, kwargs) ==
    PrescanFrom(self, cache, [results |-> <<>>, index_query_map |-> <<>>, exc |-> ""],
                1, queries, kwargs)

\* ------------------------------------------------------------------------
\* State machine: one StringInterface object, its cache directory, the
\* service, and the callers of fetch_single and fetch_batch
\* ------------------------------------------------------------------------
SELF == "StringInterface"
max_workers == 5

ListOf(xs) == PList([i \in 1..Len(xs) |-> PStr(xs[i])])
IdLists == SeqsUpTo(Ids, MaxList) \ {<<>>}
DistinctLists == {xs \in IdLists : \A i, j \in 1..Len(xs) : xs[i] = xs[j] => i = j}

Kwargs == {PDict(<< <<"method", PStr("get_string_ids")>> >>)}

\* list values of the groupable parameter species
SpeciesLists == {<<PInt(9606), PInt(10090)>>}

\* the queries of the single-query callers
SingleQueries ==
    {PStr(id) : id \in Ids}
    \cup {PDict(<< <<"identifiers", PStr(id)>> >>) : id \in Ids}
    \cup {PDict(<< <<"identifiers", ListOf(xs)>> >>) : xs \in IdLists}
    \cup {PDict(<< <<"identifiers", ListOf(xs)>>, <<"species", PInt(9606)>> >>) :
            xs \in DistinctLists}
    \cup {PDict(<< <<"identifiers", ListOf(xs)>>, <<"species", PList(sp)>> >>) :
            xs \in DistinctLists, sp \in SpeciesLists}

\* the queries a batch is made of
BatchQueries ==
    {PStr(id) : id \in Ids}
    \cup {PDict(<< <<"identifiers", PStr("P1")>> >>)}
    \cup {PDict(<< <<"identifiers", ListOf(<<"P1", "P2">>)>> >>)}
    \cup {PDict(<< <<"identifiers", ListOf(<<"P1", "P2">>)>>, <<"species", PInt(9606)>> >>)}

Batches == SeqsUpTo(BatchQueries, MaxBatch) \ {<<>>}

\* the services the callers meet: at most one identifier is not answered
\* with an item
Services == {s \in [Ids -> Modes] : Cardinality({id \in Ids : s[id] # "ok"}) <= 1}

VARIABLES
    cache,      \* the cache directory: key of a file |-> its content
    service,    \* how the service answers for each identifier
    last,       \* the last operation that completed, with its outcome
    batch       \* the fetch_batch call in progress, if any

vars == <<cache, service, last, batch>>

\* the call before the last one, kept for an object asked twice in a row
NoPrev == [queries |-> <<>>, kwargs |-> PNone, key |-> ""]

NoOp ==
    [op |-> "none", self |-> SELF, queries |-> <<>>, kwargs |-> PNone,
     fetched |-> <<>>, raised |-> FALSE, value |-> PNone,
     dispatched |-> <<>>, futures |-> <<>>, key |-> "",
     subqueries |-> <<>>, prev |-> NoPrev, turn |-> 0, after |-> <<>>,
     mapping |-> <<>>, fields |-> PNone, saved |-> {}]

NoTask == [pc |-> "queued", plan |-> NoPlan, full |-> PNone,
           raised |-> FALSE, value |-> PNone, writes |-> <<>>]

NoBatch ==
    [active |-> FALSE, queries |-> <<>>, kwargs |-> PNone,
     results |-> <<>>, index_query_map |-> <<>>, task |-> <<>>,
     fetched |-> <<>>, after |-> <<>>, saved |-> {},
     max_workers |-> max_workers]

Init ==
    /\ cache = EmptyCache
    /\ service \in Services
    /\ last = NoOp
    /\ batch = NoBatch

\* a caller runs fetch_single(query, **kwargs) on its own thread; turn tells
\* a call from the call before it
FetchSingle(query, kwargs) ==
    /\ ~batch.active
    /\ \E r \in {fetch_single(SELF, cache, service, query, kwargs)} :
          /\ cache' = r.cache
          /\ last' = [NoOp EXCEPT !.op = "single", !.queries = <<query>>,
                                  !.kwargs = kwargs,
                                  !.fetched = r.fetched, !.raised = r.raised,
                                  !.value = r.value, !.turn = 1 - last.turn,
                                  !.after = <<r.query>>]
    /\ UNCHANGED <<service, batch>>

\* somebody deletes a cache file
DeleteCacheFile(key) ==
    /\ ~batch.active
    /\ key \in DOMAIN cache
    /\ cache' = IF DOMAIN cache = {key} THEN EmptyCache
                ELSE [k \in DOMAIN cache \ {key} |-> cache[k]]
    /\ last' = [NoOp EXCEPT !.op = "delete", !.key = key]
    /\ UNCHANGED <<service, batch>>

\* a cache file is damaged (a truncated or garbled write)
CorruptCacheFile(key) ==
    /\ ~batch.active
    /\ key \in DOMAIN cache
    /\ cache[key] # Corrupt
    /\ cache' = [cache EXCEPT ![key] = Corrupt]
    /\ last' = [NoOp EXCEPT !.op = "corrupt", !.key = key]
    /\ UNCHANGED <<service, batch>>

\* fetch_batch up to the submission of the missing queries to the pool; a
\* failure of the pre-scan leaves fetch_batch as an exception
BatchStart(queries, kwargs) ==
    /\ ~batch.active
    /\ \E st \in {Prescan(SELF, cache, queries, kwargs)} :
          IF st.exc # ""
          THEN /\ last' = [NoOp EXCEPT !.op = "batch", !.queries = queries,
                                       !.kwargs = kwargs, !.after = queries,
                                       !.raised = TRUE, !.value = PStr(st.exc)]
               /\ batch' = batch
          ELSE /\ batch' = [active |-> TRUE, queries |-> queries, kwargs |-> kwargs,
                            results |-> st.results,
                            index_query_map |-> st.index_query_map,
                            task |-> [n \in 1..Len(st.index_query_map) |-> NoTask],
                            fetched |-> <<>>, after |-> queries, saved |-> {},
                            max_workers |-> batch.max_workers]
               /\ last' = [NoOp EXCEPT !.op = "prescan", !.queries = queries,
                                       !.kwargs = kwargs]
    /\ UNCHANGED <<cache, service>>

\* the submitted fetch_single calls a pool thread is running
InProgress(b) == {n \in 1..Len(b.task) : b.task[n].pc \in {"saving", "open", "write"}}

Running == InProgress(batch)

\* a pool that starts every submitted call at once
PoolUnbounded(b) == TRUE

\* ThreadPoolExecutor(max_workers=self.max_workers): a submitted call waits
\* in the queue until one of the max_workers threads is idle
PoolHasIdleThread(b) == Cardinality(InProgress(b)) < b.max_workers

\* a pool thread takes the next submitted fetch_single and runs it up to the
\* return of its call of fetch(): the cache lookup, then the request
WorkerFetch(n) ==
    /\ batch.active
    /\ n \in 1..Len(batch.task)
    /\ batch.task[n].pc = "queued"
    /\ \A m \in 1..(n - 1) : batch.task[m].pc # "queued"
    /\ PoolHasIdleThread(batch)
    /\ \E plan \in {Lookup(SELF, cache, batch.after[batch.index_query_map[n]],
                            batch.kwargs)} :
       \E full \in {IF plan.kind = "fetch"
                    THEN fetch(service, plan.request, plan.separator) ELSE PNone} :
          batch' = [batch EXCEPT
             !.fetched = IF plan.kind = "fetch" THEN Append(@, plan.request) ELSE @,
             !.after[batch.index_query_map[n]] = plan.query,
             !.task[n] =
                IF plan.kind = "raise"
                THEN [NoTask EXCEPT !.pc = "done", !.raised = TRUE, !.value = PStr(plan.exc)]
                ELSE IF plan.kind = "hit"
                THEN [NoTask EXCEPT !.pc = "done", !.value = plan.result]
                ELSE IF Raised(full)
                THEN [NoTask EXCEPT !.pc = "done", !.raised = TRUE,
                                    !.value = PStr(full.exc)]
                ELSE [NoTask EXCEPT !.pc = "saving", !.plan = plan, !.full = full]]
    /\ UNCHANGED <<cache, service, last>>

\* the worker splits the response and opens the file of its next save_cache
\* call; a worker with nothing to save returns
WorkerOpen(n) ==
    /\ batch.active
    /\ n \in 1..Len(batch.task)
    /\ batch.task[n].pc \in {"saving", "open"}
    /\ \E out \in {IF batch.task[n].pc = "open"
                   THEN Outcome(cache, batch.task[n].raised, batch.task[n].value)
                   ELSE Complete(SELF, cache, batch.task[n].plan, batch.task[n].full,
                                 batch.kwargs)} :
       \E t \in {IF batch.task[n].pc = "open" THEN batch.task[n]
                 ELSE [batch.task[n] EXCEPT
                         !.raised = out.raised,
                         !.value = out.value,
                         !.writes = Writes(SELF, batch.task[n].plan, batch.task[n].full,
                                           batch.kwargs)]} :
          IF t.writes = <<>>
          THEN /\ batch' = [batch EXCEPT !.task[n] =
                              [NoTask EXCEPT !.pc = "done", !.raised = t.raised,
                                             !.value = t.value]]
               /\ cache' = cache
          ELSE /\ batch' = [batch EXCEPT !.task[n] = [t EXCEPT !.pc = "write"]]
               /\ cache' = save_cache_open(cache, Head(t.writes)[1])
    /\ UNCHANGED <<service, last>>

\* the worker writes the data and closes the file; after its last save_cache
\* call it returns
WorkerSave(n) ==
    /\ batch.active
    /\ n \in 1..Len(batch.task)
    /\ batch.task[n].pc = "write"
    /\ cache' = save_cache_write(cache, Head(batch.task[n].writes)[1],
                                 Head(batch.task[n].writes)[2])
    /\ batch' = [batch EXCEPT !.saved = @ \cup {Head(batch.task[n].writes)},
                              !.task[n] =
          IF Tail(batch.task[n].writes) = <<>>
          THEN [NoTask EXCEPT !.pc = "done", !.raised = batch.task[n].raised,
                              !.value = batch.task[n].value]
          ELSE [batch.task[n] EXCEPT !.pc = "open",
                                     !.writes = Tail(batch.task[n].writes)]]
    /\ UNCHANGED <<service, last>>

\* the loop over the futures, in submission order: a result is appended, an
\* exception is printed and dropped
RECURSIVE CollectFutures(_, _, _)
CollectFutures(results, task, n) ==
    IF n > Len(task) THEN results
    ELSE CollectFutures(IF task[n].raised THEN results
                        ELSE Append(results, task[n].value),
                        task, n + 1)

\* every future is done: fetch_batch returns
BatchReturn ==
    /\ batch.active
    /\ \A n \in 1..Len(batch.task) : batch.task[n].pc = "done"
    /\ last' = [NoOp EXCEPT !.op = "batch", !.queries = batch.queries,
                            !.kwargs = batch.kwargs,
                            !.fetched = batch.fetched,
                            !.after = batch.after,
                            !.saved = batch.saved,
                            !.value = PList(CollectFutures(batch.results, batch.task, 1)),
                            !.dispatched = batch.index_query_map,
                            !.futures = [n \in 1..Len(batch.task) |->
                                           [raised |-> batch.task[n].raised,
                                            value |-> batch.task[n].value]]]
    /\ batch' = [NoBatch EXCEPT !.max_workers = batch.max_workers]
    /\ UNCHANGED <<cache, service>>

\* the single-query callers and the cache directory
Next ==
    \/ \E query \in SingleQueries, kwargs \in Kwargs : FetchSingle(query, kwargs)
    \/ \E key \in DOMAIN cache : DeleteCacheFile(key)

Spec == Init /\ [][Next]_vars

\* the callers of fetch_batch, next to single-query callers
NextBatch ==
    \/ \E query \in BatchQueries, kwargs \in Kwargs : FetchSingle(query, kwargs)
    \/ \E queries \in Batches, kwargs \in Kwargs : BatchStart(queries, kwargs)
    \/ \E n \in 1..MaxBatch : WorkerFetch(n)
    \/ \E n \in 1..MaxBatch : WorkerOpen(n)
    \/ \E n \in 1..MaxBatch : WorkerSave(n)
    \/ BatchReturn

SpecBatch == Init /\ [][NextBatch]_vars

\* the same system with cache files that can be damaged
NextFault ==
    \/ NextBatch
    \/ \E key \in DOMAIN cache : CorruptCacheFile(key)

SpecFault == Init /\ [][NextFault]_vars

\* an interface constructed with max_workers=PoolWorkers whose callers pass
\* batches of PoolBatch identifiers, more than the pool has threads
PoolWorkers == 2
PoolBatch == 3

PoolQueries == {PStr(id) : id \in Ids}

PoolBatches == {qs \in SeqsUpTo(PoolQueries, PoolBatch) : Len(qs) = PoolBatch}

InitPool ==
    /\ cache = EmptyCache
    /\ service \in Services
    /\ last = NoOp
    /\ batch = [NoBatch EXCEPT !.max_workers = PoolWorkers]

NextPool ==
    \/ \E query \in PoolQueries, kwargs \in Kwargs : FetchSingle(query, kwargs)
    \/ \E queries \in PoolBatches, kwargs \in Kwargs : BatchStart(queries, kwargs)
    \/ \E n \in 1..PoolBatch : WorkerFetch(n)
    \/ \E n \in 1..PoolBatch : WorkerOpen(n)
    \/ \E n \in 1..PoolBatch : WorkerSave(n)
    \/ BatchReturn

SpecPool == InitPool /\ [][NextPool]_vars

\* ------------------------------------------------------------------------
\* One object asked for two cache keys in a row (_make_cache_key)
\* ------------------------------------------------------------------------
KeySelves == {"StringInterface", "BioGRIDInterface"}

KeyQueries ==
    {PStr("P1"), PStr(""), PNone,
     ListOf(<<"P1", "P2">>), ListOf(<<"P2", "P1">>),
     PDict(<<>>),
     PDict(<< <<"identifiers", PStr("P1")>> >>),
     PDict(<< <<"identifiers", ListOf(<<"P1", "P2">>)>> >>),
     PDict(<< <<"identifiers", ListOf(<<"P2", "P1">>)>> >>),
     PDict(<< <<"identifiers", ListOf(<<"P1", "P2">>)>>, <<"species", PInt(9606)>> >>),
     PDict(<< <<"species", PInt(9606)>>, <<"identifiers", ListOf(<<"P1", "P2">>)>> >>),
     PDict(<< <<"species", PInt(9606)>>, <<"identifiers", ListOf(<<"P2", "P1">>)>> >>),
     PDict(<< <<"identifiers", PStr("P1")>>, <<"format", PStr("json")>> >>),
     PDict(<< <<"identifiers", PStr("P1")>>, <<"format", PStr("tsv")>> >>),
     PDict(<< <<"download", PStr("json")>>, <<"identifiers", PStr("P1")>> >>),
     PDict(<< <<"identifiers", PStr("P1")>>, <<"accessKey", PStr("k1")>> >>)}

KeyKwargs ==
    {PDict(<<>>),
     PDict(<< <<"method", PStr("get_string_ids")>> >>),
     PDict(<< <<"method", PStr("get_string_ids")>>, <<"option", PStr("k1")>> >>),
     PDict(<< <<"option", PStr("k1")>>, <<"method", PStr("get_string_ids")>> >>),
     PDict(<< <<"method", PStr("get_string_ids")>>, <<"outfmt", PStr("json")>> >>),
     PDict(<< <<"outfmt", PStr("tsv")>>, <<"method", PStr("get_string_ids")>> >>),
     PDict(<< <<"method", PStr("get_string_ids")>>, <<"accessKey", PStr("k1")>> >>)}

\* self._make_cache_key(input_obj, **kwargs), after the call prev
KeyCall(self, input_obj, kwargs, prev) ==
    [NoOp EXCEPT !.op = "key", !.self = self, !.queries = <<input_obj>>,
                 !.kwargs = kwargs,
                 !.key = _make_cache_key(self, input_obj, kwargs),
                 !.prev = prev]

InitKey ==
    /\ cache = EmptyCache
    /\ service = [id \in Ids |-> "ok"]
    /\ batch = NoBatch
    /\ last \in {KeyCall(self, input_obj, kwargs, NoPrev) :
                    self \in KeySelves, input_obj \in KeyQueries, kwargs \in KeyKwargs}

\* the second call on the same object
MakeCacheKey(input_obj, kwargs) ==
    /\ last.op = "key"
    /\ last.prev = NoPrev
    /\ last' = KeyCall(last.self, input_obj, kwargs,
                       [queries |-> last.queries, kwargs |-> last.kwargs,
                        key |-> last.key])
    /\ UNCHANGED <<cache, service, batch>>

NextKey == \E input_obj \in KeyQueries, kwargs \in KeyKwargs : MakeCacheKey(input_obj, kwargs)

SpecKey == InitKey /\ [][NextKey]_vars

\* ------------------------------------------------------------------------
\* A query decomposed by decompose_query and merged back by merge_dicts
\* ------------------------------------------------------------------------
PropertyValues ==
    {PStr("MolecularWeight"),
     ListOf(<<"MolecularWeight">>),
     ListOf(<<"MolecularWeight", "MolecularFormula">>)}

PubChemQueries ==
    {PDict(<< <<"cid", cid>> >>) :
        cid \in {PStr(id) : id \in Ids} \cup {ListOf(xs) : xs \in IdLists}}
    \cup {PDict(<< <<"cid", cid>>, <<"property", prop>> >>) :
            cid \in {PStr(id) : id \in Ids} \cup {ListOf(xs) : xs \in IdLists},
            prop \in PropertyValues}
    \cup {PDict(<< <<"property", prop>> >>) : prop \in PropertyValues}

DecomposeInputs ==
    {<<"StringInterface", "get_string_ids", q>> : q \in {sq \in SingleQueries : IsDict(sq)}}
    \cup {<<"PubChemInterface", "compound", q>> : q \in PubChemQueries}

InitDecompose ==
    /\ cache = EmptyCache
    /\ service = [id \in Ids |-> "ok"]
    /\ batch = NoBatch
    /\ last \in {[NoOp EXCEPT !.op = "query", !.self = in[1],
                              !.kwargs = PDict(<< <<"method", PStr(in[2])>> >>),
                              !.queries = <<in[3]>>] : in \in DecomposeInputs}

\* subqueries = self.decompose_query(query, method, option)
DecomposeQuery ==
    /\ last.op = "query"
    /\ \E d \in {decompose_query(last.self, last.queries[1],
                                  PyStr(KwGet(last.kwargs, "method")),
                                  KwGet(last.kwargs, "option"))} :
          last' = [last EXCEPT !.op = "decompose", !.raised = Raised(d),
                               !.subqueries = IF Raised(d) THEN <<>> ELSE d.subqueries]
    /\ UNCHANGED <<cache, service, batch>>

\* combined = self.merge_dicts([subq for _, subq in subqueries])
MergeDicts ==
    /\ last.op = "decompose"
    /\ ~last.raised
    /\ last' = [last EXCEPT !.op = "merge",
                    !.value = merge_dicts([i \in 1..Len(last.subqueries) |->
                                              last.subqueries[i][2]])]
    /\ UNCHANGED <<cache, service, batch>>

NextDecompose == DecomposeQuery \/ MergeDicts

SpecDecompose == InitDecompose /\ [][NextDecompose]_vars

\* ------------------------------------------------------------------------
\* fetch_single called with methods, options and parameter values that the
\* method specification does not allow
\* ------------------------------------------------------------------------
ValidateQueries ==
    {PStr("P1"),
     PDict(<< <<"identifiers", PStr("P1")>> >>),
     PDict(<< <<"identifiers", PStr("P1")>>, <<"species", PInt(9606)>> >>),
     PDict(<< <<"identifiers", PStr("P1")>>, <<"species", PInt(10090)>> >>),
     PDict(<< <<"identifiers", PStr("P1")>>, <<"species", PStr("human")>> >>),
     PDict(<< <<"identifiers", PInt(9606)>> >>),
     PDict(<< <<"identifiers", ListOf(<<"P1", "P2">>)>> >>),
     PDict(<< <<"identifiers", ListOf(<<"P1", "P2">>)>>, <<"species", PStr("human")>> >>)}

ValidateKwargs ==
    {PDict(<< <<"method", PStr("get_string_ids")>> >>),
     PDict(<< <<"method", PStr("compound")>> >>),
     PDict(<<>>),
     PDict(<< <<"method", PStr("get_string_ids")>>, <<"option", PStr("k1")>> >>)}

NextValidate ==
    \E query \in ValidateQueries, kwargs \in ValidateKwargs : FetchSingle(query, kwargs)

SpecValidate == Init /\ [][NextValidate]_vars

\* ------------------------------------------------------------------------
\* fetch_single called with queries that carry a list besides the list of
\* the grouped parameter: the key tags is not a parameter of the method and
\* _prepare_params leaves it out of the request
\* ------------------------------------------------------------------------
AliasQueries ==
    {PStr(id) : id \in Ids}
    \cup {PDict(<< <<"identifiers", ListOf(xs)>> >>) : xs \in IdLists}
    \cup {PDict(<< <<"identifiers", ListOf(xs)>>, <<"species", PInt(9606)>> >>) :
            xs \in DistinctLists}
    \cup {PDict(<< <<"identifiers", ListOf(xs)>>, <<"tags", ListOf(<<"human">>)>> >>) :
            xs \in IdLists}

NextAlias ==
    \E query \in AliasQueries, kwargs \in Kwargs : FetchSingle(query, kwargs)

SpecAlias == Init /\ [][NextAlias]_vars

\* ------------------------------------------------------------------------
\* split_results_by_subquery applied to the SubQueries of a StringInterface
\* query and a response of the service
\* ------------------------------------------------------------------------
SplitSpecies == {PInt(9606), PInt(10090)}

\* the responses: lists of up to MaxList items, one item, the empty dict of a
\* failed request, and a value that is neither a list nor a dict
Responses ==
    {PList(items) : items \in SeqsUpTo({Item(id, sp) : id \in Ids, sp \in SplitSpecies},
                                        MaxList)}
    \cup {Item(id, PInt(9606)) : id \in Ids}
    \cup {PDict(<<>>), PNone}

InitSplit ==
    /\ cache = EmptyCache
    /\ service = [id \in Ids |-> "ok"]
    /\ batch = NoBatch
    /\ last \in {[NoOp EXCEPT !.op = "query",
                              !.kwargs = PDict(<< <<"method", PStr("get_string_ids")>> >>),
                              !.queries = <<q>>] : q \in {sq \in SingleQueries : IsDict(sq)}}

\* mapping = self.split_results_by_subquery(full, remaining)
SplitResults(full) ==
    /\ last.op = "decompose"
    /\ ~last.raised
    /\ last.subqueries # <<>>
    /\ \E mapping \in {split_results_by_subquery(last.self, full, last.subqueries)} :
          last' = [last EXCEPT !.op = "split", !.value = full,
                               !.raised = Raised(mapping),
                               !.mapping = IF Raised(mapping) THEN <<>> ELSE mapping]
    /\ UNCHANGED <<cache, service, batch>>

NextSplit ==
    \/ DecomposeQuery
    \/ \E full \in Responses : SplitResults(full)

SpecSplit == InitSplit /\ [][NextSplit]_vars

\* ------------------------------------------------------------------------
\* Field Projector.  A dotted path is the sequence of its segments
\* (path.split(".")); the key of a projected field is their join.
\* ------------------------------------------------------------------------
\* get_nested(data, path): data.items() fails on a value that is no dict
RECURSIVE get_nested(_, _)
get_nested(data, path) ==
    LET Elements(lst) ==
            IF \E i \in 1..Len(lst) : Raised(lst[i]) THEN Raise("AttributeError")
            ELSE IF Len(lst) = 1 THEN lst[1]
            ELSE PList(lst)
        Found(value) ==
            IF IsDict(value) THEN get_nested(value, Tail(path))
            ELSE IF IsList(value)
            THEN Elements([i \in 1..Len(value.list) |->
                             get_nested(value.list[i], Tail(path))])
            ELSE value
    IN IF path = <<>> THEN data
       ELSE IF ~IsDict(data) THEN Raise("AttributeError")
       ELSE IF ~DictHas(data, Head(path)) THEN PNone
       ELSE Found(DictGet(data, Head(path)))

\* the projection specs: a list of paths, or a map from name to path
FieldList(paths) == [paths |-> paths]
FieldMap(items) == [map |-> items]
IsFieldList(f) == DOMAIN f = {"paths"}
IsFieldMap(f) == DOMAIN f = {"map"}

\* {key: get_nested(item, path) for ...} of one record; items are <<key, path>>
ProjectRecord(data, items) ==
    IF \E i \in 1..Len(items) : Raised(get_nested(data, items[i][2]))
    THEN Raise("AttributeError")
    ELSE PDict([i \in 1..Len(items) |-> <<items[i][1], get_nested(data, items[i][2])>>])

\* the same for each item of a list
ProjectList(data, items) ==
    IF \E n \in 1..Len(data.list) : Raised(ProjectRecord(data.list[n], items))
    THEN Raise("AttributeError")
    ELSE PList([n \in 1..Len(data.list) |-> ProjectRecord(data.list[n], items)])

\* _extract_fields(data, fields_to_extract, **kwargs).  A map that has the
\* option among its names is replaced by the entry of the option; the entry
\* of a map from name to path is a path, a str, for which no branch is taken.
_extract_fields(data, fields_to_extract, kwargs) ==
    LET option == KwGetDefault(kwargs, "option", PStr("default"))
        Project(items) ==
            IF IsList(data) THEN ProjectList(data, items)
            ELSE IF IsDict(data) THEN ProjectRecord(data, items)
            ELSE PDict(<<>>)
    IN IF /\ Truthy(option)
          /\ IsFieldMap(fields_to_extract)
          /\ \E i \in 1..Len(fields_to_extract.map) :
                PStr(fields_to_extract.map[i][1]) = option
       THEN PDict(<<>>)
       ELSE IF IsFieldList(fields_to_extract)
       THEN Project([i \in 1..Len(fields_to_extract.paths) |->
                       <<Join(fields_to_extract.paths[i], "."), fields_to_extract.paths[i]>>])
       ELSE IF IsFieldMap(fields_to_extract)
       THEN Project(fields_to_extract.map)
       ELSE IF IsList(data) \/ IsDict(data) THEN data
       ELSE PDict(<<>>)

\* the callers of the projector
MaxPaths == 2

Paths == {<<"a">>, <<"a", "b">>, <<"c">>, <<"c", "d">>, <<"q">>}

Records ==
    {PDict(<< <<"a", PDict(<< <<"b", PInt(5)>> >>)>>,
              <<"c", PList(<< PDict(<< <<"d", PInt(1)>> >>),
                              PDict(<< <<"d", PInt(2)>> >>) >>)>> >>),
     PDict(<< <<"a", PDict(<< <<"b", PInt(5)>> >>)>>,
              <<"c", PList(<< PDict(<< <<"d", PInt(1)>> >>) >>)>> >>),
     PDict(<< <<"a", PInt(5)>>, <<"c", PList(<<>>)>> >>),
     PDict(<< <<"a", PDict(<< <<"b", PInt(5)>> >>)>>,
              <<"c", PList(<<PInt(1), PInt(2)>>)>> >>)}

ProjectData == Records \cup {PList(<<r1, r2>>) : r1, r2 \in Records}

FieldSpecs ==
    {FieldList(ps) : ps \in {xs \in SeqsUpTo(Paths, MaxPaths) :
                                \A i, j \in 1..Len(xs) : xs[i] = xs[j] => i = j}}
    \cup {FieldMap(<< <<name, path>> >>) : name \in {"k1", "default"}, path \in Paths}
    \cup {FieldMap(<< <<"k1", p1>>, <<"human", p2>> >>) : p1, p2 \in Paths}
    \cup {PNone}

ProjectKwargs == {PDict(<<>>), PDict(<< <<"option", PStr("k1")>> >>)}

InitProject ==
    /\ cache = EmptyCache
    /\ service = [id \in Ids |-> "ok"]
    /\ batch = NoBatch
    /\ last \in {[NoOp EXCEPT !.op = "record", !.queries = <<data>>,
                              !.fields = fields, !.kwargs = kwargs] :
                    data \in ProjectData, fields \in FieldSpecs, kwargs \in ProjectKwargs}

\* parsed = self._extract_fields(data, fields_to_extract, **kwargs)
ExtractFields ==
    /\ last.op = "record"
    /\ \E parsed \in {_extract_fields(last.queries[1], last.fields, last.kwargs)} :
          last' = [last EXCEPT !.op = "extract", !.raised = Raised(parsed),
                               !.value = IF Raised(parsed) THEN PStr(parsed.exc)
                                         ELSE parsed]
    /\ UNCHANGED <<cache, service, batch>>

NextProject == ExtractFields

SpecProject == InitProject /\ [][NextProject]_vars

\* ========================================================================
\* Properties
\* ========================================================================
\* the step is a fetch_single call, told from the call before it
SingleStep == last'.op = "single" /\ (last.op = "single" => last'.turn # last.turn)

\* the same call as the one before it
RepeatStep ==
    /\ last.op = "single"
    /\ SingleStep
    /\ last'.queries = last.queries
    /\ last'.kwargs = last.kwargs

\* a fetch_single call that returned a non-empty result: one result for each
\* SubQuery of a decomposed query
CompleteCall(op) ==
    /\ op.op = "single"
    /\ ~op.raised
    /\ IF Decomposes(op.queries[1], _get_method_spec(SELF, op.kwargs))
       THEN /\ IsList(op.value)
            /\ Len(op.value.list) = Cardinality(QueryKeys(SELF, op.queries[1], op.kwargs))
       ELSE Truthy(op.value)

\* the call that follows the deletion of one cache file of its query, the
\* query's other cache files being in place
AfterDeleteStep ==
    /\ last.op = "delete"
    /\ SingleStep
    /\ last.key \in QueryKeys(SELF, last'.queries[1], last'.kwargs)
    /\ QueryKeys(SELF, last'.queries[1], last'.kwargs) \ {last.key} \subseteq DOMAIN cache

\* C1 as stated: the second of two consecutive identical fetch_single calls
\* issues no fetch() (the two calls issue at most one), and the call after
\* the deletion of the query's cache file issues exactly one fetch().
C1_Original ==
    [][/\ RepeatStep => (last'.fetched = <<>> /\ Len(last.fetched) <= 1)
       /\ AfterDeleteStep => Len(last'.fetched) = 1]_vars

\* C1 amended: when a fetch_single call returns normally with a non-empty
\* result (one for every SubQuery of a decomposed query), the identical call
\* that follows issues no fetch() and returns normally; and the call after
\* the deletion of one cache file of its query issues exactly one fetch().
C1_CacheIdempotence ==
    [][/\ (RepeatStep /\ CompleteCall(last))
            => (last'.fetched = <<>> /\ ~last'.raised /\ Len(last.fetched) <= 1)
       /\ AfterDeleteStep => Len(last'.fetched) = 1]_vars

\* a call served from the cache alone, every cache file of its query in place
C1_Witness ==
    /\ CompleteCall(last)
    /\ last.fetched = <<>>
    /\ last.turn = 0
    /\ QueryKeys(SELF, last.queries[1], last.kwargs) \subseteq DOMAIN cache
    /\ Cardinality(QueryKeys(SELF, last.queries[1], last.kwargs)) = 2

\* the result fetch_single gives for query i of the returned batch
BatchResult(i) == fetch_single(SELF, cache, service, last.queries[i], last.kwargs)

\* C2: element i of what fetch_batch returns is the result of input query i,
\* for a batch none of whose queries failed.
C2_OrderPreserved ==
    (last.op = "batch" /\ ~last.raised
        /\ \A n \in 1..Len(last.futures) : ~last.futures[n].raised)
    => /\ Len(last.value.list) = Len(last.queries)
       /\ \A i \in 1..Len(last.queries) : last.value.list[i] = BatchResult(i).value

\* the batch ["P1", "P2"] returned with the two results swapped
C2_Witness ==
    /\ last.op = "batch"
    /\ last.queries = <<PStr("P1"), PStr("P2")>>
    /\ last.dispatched = <<1>>
    /\ BatchResult(1).value # BatchResult(2).value
    /\ last.value = PList(<<BatchResult(2).value, BatchResult(1).value>>)

\* C3: a batch of N queries some of whose fetch() fails returns N elements,
\* and the slot of every query that did not fail holds that query's result.
C3_PartialFailure ==
    (last.op = "batch" /\ ~last.raised
        /\ \E n \in 1..Len(last.futures) : last.futures[n].raised)
    => /\ Len(last.value.list) = Len(last.queries)
       /\ \A i \in 1..Len(last.queries) :
             ~BatchResult(i).raised => last.value.list[i] = BatchResult(i).value

\* a batch of two queries, one of them failed, returned with one element
C3_Witness ==
    /\ last.op = "batch"
    /\ Len(last.queries) = 2
    /\ Len(last.futures) = 2
    /\ last.futures[1].raised
    /\ ~last.futures[2].raised
    /\ Len(last.value.list) = 1

\* C4: no failure in one query of a batch leaves fetch_batch as an exception,
\* and the result of every query that succeeds is in the output.
C4_Isolation ==
    last.op = "batch"
    => /\ ~last.raised
       /\ \A i \in 1..Len(last.queries) :
             ~BatchResult(i).raised
                => \E j \in 1..Len(last.value.list) : last.value.list[j] = BatchResult(i).value

\* fetch_batch left by the exception of a cache file that holds no JSON
C4_Witness ==
    /\ last.op = "batch"
    /\ last.raised
    /\ last.value = PStr("JSONDecodeError")
    /\ Len(last.queries) = 2

\* C5: a fetch_single call on a query that decomposes into SubQueries issues
\* exactly one fetch() when a SubQuery has no cache entry and none when every
\* SubQuery is cached.
C5_OneFetch ==
    [][(SingleStep /\ Decomposes(last'.queries[1], _get_method_spec(SELF, last'.kwargs)))
        => Len(last'.fetched) =
             IF QueryKeys(SELF, last'.queries[1], last'.kwargs) \subseteq DOMAIN cache
             THEN 0 ELSE 1]_vars

\* a decomposed call with uncached SubQueries that ended without a fetch()
C5_Witness ==
    /\ last.op = "single"
    /\ Decomposes(last.queries[1], _get_method_spec(SELF, last.kwargs))
    /\ last.raised
    /\ last.value = PStr("TypeError")
    /\ last.fetched = <<>>
    /\ QueryKeys(SELF, last.queries[1], last.kwargs) \cap DOMAIN cache = {}

\* the queries with one list-valued groupable identity parameter
OneListQueries ==
    {q \in SingleQueries :
        /\ IsDict(q)
        /\ IsList(DictGet(q, "identifiers"))
        /\ DictHas(q, "species") => ~IsList(DictGet(q, "species"))}

\* the values of identifiers whose SubQuery has no cache entry
UncachedValues(query, kwargs) ==
    LET subqueries == decompose_query(SELF, query, PyStr(KwGet(kwargs, "method")),
                                      KwGet(kwargs, "option")).subqueries
    IN {DictGet(subqueries[i][2], "identifiers").str :
          i \in {j \in 1..Len(subqueries) :
                   SubKey(SELF, subqueries[j], kwargs) \notin DOMAIN cache}}

\* the values of identifiers a request to fetch() carries
RequestedValues(request) ==
    LET ids == RequestedIds(request, StringMethodSpec(FALSE).separator)
    IN {ids[i] : i \in 1..Len(ids)}

\* C6: for a query with one list-valued groupable identity parameter, the
\* request fetch_single passes to fetch() carries exactly the values whose
\* SubQuery has no cache entry, and no request is made when there is none.
C6_UncachedOnly ==
    [][(SingleStep /\ last'.queries[1] \in OneListQueries)
        => IF UncachedValues(last'.queries[1], last'.kwargs) = {}
           THEN last'.fetched = <<>>
           ELSE /\ Len(last'.fetched) = 1
                /\ RequestedValues(last'.fetched[1])
                     = UncachedValues(last'.queries[1], last'.kwargs)]_vars

\* a call on a list of two values, one cached, that requested the other alone
C6_Witness ==
    /\ last.op = "single"
    /\ last.queries = <<PDict(<< <<"identifiers", ListOf(<<"P1", "P2">>)>> >>)>>
    /\ ~last.raised
    /\ Len(last.fetched) = 1
    /\ RequestedValues(last.fetched[1]) = {"P2"}
    /\ Len(last.value.list) = 2

\* the elements of a list with their numbers of occurrences
Unordered(v) ==
    IF IsList(v)
    THEN [bag |-> {<<v.list[i], Cardinality({j \in 1..Len(v.list) : v.list[j] = v.list[i]})>> :
                      i \in 1..Len(v.list)}]
    ELSE v

\* what a query or an option set says, whatever the order it is written in
Logical(v) ==
    IF IsDict(v)
    THEN [map |-> {<<v.dict[i][1], Unordered(v.dict[i][2])>> : i \in 1..Len(v.dict)}]
    ELSE Unordered(v)

TwoKeys == last.op = "key" /\ last.prev # NoPrev

\* C7: two _make_cache_key calls on the same logical query and options
\* (key order, order of the elements of list values, order of a sequence of
\* identifiers, order of the options) return the same key.
C7_OrderIndependent ==
    (/\ TwoKeys
     /\ Logical(last.queries[1]) = Logical(last.prev.queries[1])
     /\ Logical(last.kwargs) = Logical(last.prev.kwargs))
    => last.key = last.prev.key

\* the same two identifiers in two orders, under two keys
C7_Witness ==
    /\ TwoKeys
    /\ last.prev.queries = <<ListOf(<<"P1", "P2">>)>>
    /\ last.queries = <<ListOf(<<"P2", "P1">>)>>
    /\ last.kwargs = last.prev.kwargs
    /\ last.key # last.prev.key

\* the ignored keys: those of the base class and those a service adds
IgnoredKeys(self) ==
    {"parse", "to_dataframe", "fields_to_extract", "config_key",
     "pages_to_fetch", "outfmt", "format", "download"}
    \cup (IF self = "BioGRIDInterface" THEN {"accessKey"} ELSE {})

\* a query map or option set without its ignored keys
WithoutIgnored(self, v) ==
    IF IsDict(v)
    THEN PDict(SelectSeq(v.dict, LAMBDA p : p[1] \notin IgnoredKeys(self)))
    ELSE v

\* C8: two _make_cache_key calls whose query map and options differ only in
\* the presence or value of ignored keys return the same key.
C8_IgnoredKeys ==
    (/\ TwoKeys
     /\ WithoutIgnored(last.self, last.queries[1])
          = WithoutIgnored(last.self, last.prev.queries[1])
     /\ WithoutIgnored(last.self, last.kwargs)
          = WithoutIgnored(last.self, last.prev.kwargs))
    => last.key = last.prev.key

\* two BioGRID calls that differ in accessKey and in format
C8_Witness ==
    /\ TwoKeys
    /\ last.self = "BioGRIDInterface"
    /\ last.prev.queries = <<PDict(<< <<"identifiers", PStr("P1")>>,
                                      <<"format", PStr("json")>> >>)>>
    /\ last.queries = <<PDict(<< <<"identifiers", PStr("P1")>>,
                                 <<"accessKey", PStr("k1")>> >>)>>
    /\ DictHas(last.kwargs, "accessKey")
    /\ ~DictHas(last.prev.kwargs, "accessKey")
    /\ last.key = last.prev.key

\* the groupable parameters of the method of a call
Groupable(op) == METHODS(op.self)[PyStr(KwGet(op.kwargs, "method"))].group_queries

\* the query has a list-valued groupable identity parameter
HasListIdentity(op) ==
    LET spec == METHODS(op.self)[PyStr(KwGet(op.kwargs, "method"))]
    IN \E i \in 1..Len(spec.parameters) :
          /\ spec.parameters[i][4]
          /\ InSeq(spec.parameters[i][1], spec.group_queries)
          /\ DictHas(op.queries[1], spec.parameters[i][1])
          /\ IsList(DictGet(op.queries[1], spec.parameters[i][1]))

ValueSet(v) == IF IsList(v) THEN {v.list[i] : i \in 1..Len(v.list)} ELSE {v}

\* C9: merge_dicts of the SubQueries of decompose_query gives back the query:
\* the same keys, the same set of values for each list-valued groupable
\* parameter, every other parameter with its value.
C9_MergeInverse ==
    (last.op = "merge" /\ HasListIdentity(last))
    => /\ DictKeys(last.value) = DictKeys(last.queries[1])
       /\ \A k \in DictKeys(last.queries[1]) :
             IF InSeq(k, Groupable(last)) /\ IsList(DictGet(last.queries[1], k))
             THEN ValueSet(DictGet(last.value, k)) = ValueSet(DictGet(last.queries[1], k))
             ELSE DictGet(last.value, k) = DictGet(last.queries[1], k)

\* a PubChem query merged back with the property names under cid
C9_Witness ==
    /\ last.op = "merge"
    /\ last.self = "PubChemInterface"
    /\ last.queries = <<PDict(<< <<"cid", PStr("P1")>>,
                                 <<"property", ListOf(<<"MolecularWeight",
                                                        "MolecularFormula">>)>> >>)>>
    /\ DictGet(last.value, "cid") = ListOf(<<"MolecularWeight", "MolecularFormula">>)

\* C10: fetch_batch submits to the pool no query whose results an earlier
\* call stored in the cache.
C10_CachedNotDispatched ==
    [][(~batch.active /\ batch'.active)
        => \A n \in 1..Len(batch'.index_query_map) :
              ~(QueryKeys(SELF, batch'.queries[batch'.index_query_map[n]], batch'.kwargs)
                  \subseteq DOMAIN cache)]_vars

\* a pool task for a query whose cache file is in place
C10_Witness ==
    /\ batch.active
    /\ batch.queries = <<PDict(<< <<"identifiers", PStr("P1")>> >>)>>
    /\ batch.index_query_map = <<1>>
    /\ batch.task[1].pc = "queued"
    /\ QueryKeys(SELF, batch.queries[1], batch.kwargs) \subseteq DOMAIN cache

\* the step is taken by a call that called fetch(): a fetch_single call of the
\* calling thread, or a pool thread between the return of its fetch() and the
\* end of its fetch_single
FetchedStep ==
    \/ SingleStep /\ last'.fetched # <<>>
    \/ \E n \in 1..Len(batch.task) :
          /\ batch.task[n].pc \in {"saving", "open", "write"}
          /\ batch.task[n].plan.kind = "fetch"
          /\ batch'.active
          /\ batch'.task[n] # batch.task[n]

\* C11: no fetch_single or fetch_batch step removes a cache entry; the content
\* of an entry changes only in a step of a call that called fetch(), and what
\* such a call leaves when it has written is a whole response, never a mix;
\* a fetch_single call served from the cache leaves every entry unchanged.
C11_EntriesKept ==
    [][/\ DOMAIN cache \subseteq DOMAIN cache'
       /\ \A k \in DOMAIN cache : cache'[k] # cache[k] => FetchedStep
       /\ \A k \in DOMAIN cache' : DOMAIN cache'[k] # {"torn"}
       /\ (SingleStep /\ last'.fetched = <<>>) => cache' = cache]_vars

\* a batch that has returned and left a cache file that mixes two responses
C11_Witness ==
    /\ last.op = "batch"
    /\ ~batch.active
    /\ Len(last.queries) = 2
    /\ "P1_get_string_ids" \in DOMAIN cache
    /\ DOMAIN cache["P1_get_string_ids"] = {"torn"}

\* a cache file of the query holds no JSON document
UnreadableEntry(query, kwargs) ==
    \E k \in QueryKeys(SELF, query, kwargs) : k \in DOMAIN cache /\ NoJSON(cache[k])

\* C12: a fetch_single call that meets an unreadable cache file of its query
\* treats it as a miss: it calls fetch() and no error of the cache reaches
\* the caller.
C12_CorruptIsMiss ==
    [][(SingleStep /\ UnreadableEntry(last'.queries[1], last'.kwargs))
        => /\ last'.fetched # <<>>
           /\ ~(last'.raised /\ last'.value = PStr("JSONDecodeError"))]_vars

\* a fetch_single call ended by the JSONDecodeError of its cache file, with
\* no fetch() call
C12_Witness ==
    /\ last.op = "single"
    /\ last.queries = <<PStr("P1")>>
    /\ last.raised
    /\ last.value = PStr("JSONDecodeError")
    /\ last.fetched = <<>>
    /\ cache["P1_get_string_ids"] = Corrupt

\* the method of the call is not one of METHODS
BadMethod(kwargs) ==
    ~(IsStr(KwGet(kwargs, "method")) /\ KwGet(kwargs, "method").str \in DOMAIN METHODS(SELF))

\* the call names an option; no method of StringInterface defines one
BadOption(kwargs) == ~BadMethod(kwargs) /\ Truthy(KwGet(kwargs, "option"))

\* a value of the query is not of the type its parameter declares, a list
\* of values of that type counting for a groupable parameter
BadType(query, kwargs) ==
    /\ ~BadMethod(kwargs)
    /\ IsDict(query)
    /\ LET spec == METHODS(SELF)[KwGet(kwargs, "method").str]
       IN \E i \in 1..Len(spec.parameters) :
             /\ DictHas(query, spec.parameters[i][1])
             /\ LET v == DictGet(query, spec.parameters[i][1])
                IN IF IsList(v) /\ InSeq(spec.parameters[i][1], spec.group_queries)
                   THEN \E j \in 1..Len(v.list) : ~IsInstance(v.list[j], spec.parameters[i][2])
                   ELSE ~IsInstance(v, spec.parameters[i][2])

\* C13: a fetch_single call with an unsupported method, an undefined option
\* or a parameter value that fails its declared type raises a validation
\* error before any fetch() call and before any cache write.
C13_ValidationFirst ==
    [][(/\ SingleStep
        /\ \/ BadMethod(last'.kwargs)
           \/ BadOption(last'.kwargs)
           \/ BadType(last'.queries[1], last'.kwargs))
        => /\ last'.raised
           /\ last'.value = PStr("ValueError")
           /\ last'.fetched = <<>>
           /\ cache' = cache]_vars

\* a call with a string for the int parameter species that reached fetch()
C13_Witness ==
    /\ last.op = "single"
    /\ last.queries = <<PDict(<< <<"identifiers", PStr("P1")>>,
                                 <<"species", PStr("human")>> >>)>>
    /\ BadType(last.queries[1], last.kwargs)
    /\ Len(last.fetched) = 1
    /\ DictGet(last.fetched[1], "species") = PStr("human")
    /\ last.raised

\* the service fails on an identifier the request names
ServiceRaises(request, kwargs) ==
    \E r \in {RequestedIds(request, _get_method_spec(SELF, kwargs).separator)} :
       \E i \in 1..Len(r) : service[r[i]] = "raise"

\* C14: when the fetch() of a fetch_single call raises, the exception reaches
\* the caller of fetch_single and the call leaves the cache as it was.
C14_FailurePropagates ==
    [][(/\ SingleStep
        /\ last'.fetched # <<>>
        /\ ServiceRaises(last'.fetched[1], last'.kwargs))
        => /\ last'.raised
           /\ last'.value = PStr("ValueError")
           /\ cache' = cache]_vars

\* a decomposed call with P1 in the cache whose fetch() for P2 raised
C14_Witness ==
    /\ last.op = "single"
    /\ last.queries = <<PDict(<< <<"identifiers", ListOf(<<"P1", "P2">>)>> >>)>>
    /\ Len(last.fetched) = 1
    /\ ServiceRaises(last.fetched[1], last.kwargs)
    /\ last.raised
    /\ DOMAIN cache = {"P1_get_string_ids"}

\* C15: a fetch_single call, and a fetch_batch call that has returned, leave
\* every query object passed by the caller with the keys and the values,
\* list values included, it had before the call.
C15_QueryUntouched ==
    [][/\ SingleStep => last'.after = last'.queries
       /\ last'.op = "batch" => last'.after = last'.queries]_vars

\* a call that returned its results and left the caller's list appended to
\* itself
C15_Witness ==
    /\ last.op = "single"
    /\ last.queries = <<PDict(<< <<"identifiers", ListOf(<<"P1", "P2">>)>>,
                                 <<"tags", ListOf(<<"human">>)>> >>)>>
    /\ ~last.raised
    /\ Len(last.value.list) = 2
    /\ DictGet(last.after[1], "identifiers") = ListOf(<<"P1", "P2">>)
    /\ DictGet(last.after[1], "tags") = PList(<<PStr("human"), PSelf>>)

\* C16: the identifiers of the SubQueries of one decompose_query call are
\* pairwise distinct, so no two SubQueries share a cache key.
C16_DistinctIdentifiers ==
    (last.op = "decompose" /\ ~last.raised)
    => \A i, j \in 1..Len(last.subqueries) :
          (\/ last.subqueries[i][1] = last.subqueries[j][1]
           \/ SubKey(last.self, last.subqueries[i], last.kwargs)
                = SubKey(last.self, last.subqueries[j], last.kwargs))
          => i = j

\* a list that names P1 twice decomposed into two SubQueries "P1"
C16_Witness ==
    /\ last.op = "decompose"
    /\ last.self = "StringInterface"
    /\ last.queries = <<PDict(<< <<"identifiers", ListOf(<<"P1", "P1">>)>> >>)>>
    /\ Len(last.subqueries) = 2
    /\ last.subqueries[1][1] = "P1"
    /\ last.subqueries[2][1] = "P1"

\* C17: decompose_query returns SubQueries only for a query in which an
\* identity parameter listed in group_queries holds a list; for every other
\* query it returns the empty list.
C17_DecomposeOnlyLists ==
    (last.op = "decompose" /\ ~last.raised /\ ~HasListIdentity(last))
    => last.subqueries = <<>>

\* a query with the scalar identifier P1 decomposed into one SubQuery whose
\* identifier is the empty string
C17_Witness ==
    /\ last.op = "decompose"
    /\ last.self = "StringInterface"
    /\ last.queries = <<PDict(<< <<"identifiers", PStr("P1")>> >>)>>
    /\ ~HasListIdentity(last)
    /\ last.subqueries = << <<"", PDict(<< <<"identifiers", PStr("P1")>> >>)>> >>

\* the groupable parameters the query holds a list for, in the order of
\* group_queries
ListedKeys(op) ==
    SelectSeq(Groupable(op),
              LAMBDA k : DictHas(op.queries[1], k) /\ IsList(DictGet(op.queries[1], k)))

\* the SubQuery the combination combo stands for: the query with each listed
\* parameter replaced by its value of the combination
Replaced(query, listed, combo) ==
    PDict([i \in 1..Len(query.dict) |->
             IF InSeq(query.dict[i][1], listed)
             THEN <<query.dict[i][1],
                    combo[CHOOSE j \in 1..Len(listed) : listed[j] = query.dict[i][1]]>>
             ELSE query.dict[i]])

\* C18: decompose_query returns one SubQuery per element of the Cartesian
\* product of the list-valued groupable parameters of the query, in the
\* order of group_queries; in each SubQuery every such parameter holds its
\* value of the combination and every other parameter its value in the query.
C18_ProductOfLists ==
    (last.op = "decompose" /\ ~last.raised /\ HasListIdentity(last))
    => LET listed == ListedKeys(last)
           combos == product([i \in 1..Len(listed) |->
                                DictGet(last.queries[1], listed[i]).list])
       IN /\ Len(last.subqueries) = Len(combos)
          /\ \A c \in 1..Len(last.subqueries) :
                last.subqueries[c][2] = Replaced(last.queries[1], listed, combos[c])

\* a PubChem query with a scalar cid and two properties: the first SubQuery
\* holds the property name under cid and the whole list under property
C18_Witness ==
    /\ last.op = "decompose"
    /\ last.self = "PubChemInterface"
    /\ last.queries = <<PDict(<< <<"cid", PStr("P1")>>,
                                 <<"property", ListOf(<<"MolecularWeight",
                                                        "MolecularFormula">>)>> >>)>>
    /\ Len(last.subqueries) = 2
    /\ DictGet(last.subqueries[1][2], "cid") = PStr("MolecularWeight")
    /\ DictGet(last.subqueries[1][2], "property")
         = ListOf(<<"MolecularWeight", "MolecularFormula">>)

\* the items of a response
ResponseItems(full) == IF IsDict(full) THEN <<full>> ELSE full.list

RECURSIVE Addressed(_, _)
Addressed(data, path) ==
    IF IsList(data) /\ path # <<>>
    THEN PList([i \in 1..Len(data.list) |-> Addressed(data.list[i], path)])
    ELSE IF path = <<>> THEN data
    ELSE IF IsDict(data) /\ DictHas(data, Head(path))
    THEN Addressed(DictGet(data, Head(path)), Tail(path))
    ELSE PNone

\* C20: for a record, _extract_fields with a list of paths returns the
\* record whose keys are the paths, each with the value its path addresses,
\* a path that crosses a sequence giving the list of the values of the
\* elements; with a map it returns the record whose keys are the desired
\* names, each with the value its source path addresses.
C20_Projection ==
    (last.op = "extract" /\ IsDict(last.queries[1]))
    => /\ IsFieldList(last.fields)
          => /\ ~last.raised
             /\ last.value =
                   PDict([i \in 1..Len(last.fields.paths) |->
                            <<Join(last.fields.paths[i], "."),
                              Addressed(last.queries[1], last.fields.paths[i])>>])
       /\ IsFieldMap(last.fields)
          => /\ ~last.raised
             /\ last.value =
                   PDict([i \in 1..Len(last.fields.map) |->
                            <<last.fields.map[i][1],
                              Addressed(last.queries[1], last.fields.map[i][2])>>])

\* the record of the example projected by the map {default: a.b} with no
\* option given: the result is the empty record
C20_Witness ==
    /\ last.op = "extract"
    /\ last.queries = <<PDict(<< <<"a", PDict(<< <<"b", PInt(5)>> >>)>>,
                                 <<"c", PList(<< PDict(<< <<"d", PInt(1)>> >>),
                                                 PDict(<< <<"d", PInt(2)>> >>) >>)>> >>)>>
    /\ last.fields = FieldMap(<< <<"default", <<"a", "b">> >> >>)
    /\ last.kwargs = PDict(<<>>)
    /\ ~last.raised
    /\ last.value = PDict(<<>>)

\* C21: when workers of one batch have saved under the same key, the entry of
\* the key after the batch has returned is the complete response one of them
\* wrote, never a mixture and never a truncated file.
C21_LastWriteWins ==
    (last.op = "batch" /\ ~batch.active)
    => \A w \in last.saved :
          /\ w[1] \in DOMAIN cache
          /\ \E v \in last.saved : v[1] = w[1] /\ cache[w[1]] = v[2]

\* a returned batch two workers of which saved different responses under one
\* key, the file holding neither
C21_Witness ==
    /\ last.op = "batch"
    /\ ~batch.active
    /\ \E w, v \in last.saved :
          /\ w[1] = v[1]
          /\ w[2] # v[2]
          /\ cache[w[1]] # w[2]
          /\ cache[w[1]] # v[2]
          /\ cache[w[1]] = Torn(Len(json_dumps(v[2])))

\* the pre-scan finds a cache file of the query missing
PrescanMiss(query, kwargs) ==
    \E keys \in {PrescanKeys(SELF, query,
                             BatchSubqueries(SELF, query, kwargs).subqueries, kwargs)} :
       \E j \in 1..Len(keys) : ~has_results(cache, keys[j])

\* C22: while fetch_batch runs, at most max_workers of the submitted
\* fetch_single calls are in progress, and the calls submitted to the pool
\* are those of the queries that missed the cache in the pre-scan, one each.
C22_BoundedPool ==
    [][batch'.active
        => /\ Cardinality(InProgress(batch')) <= batch'.max_workers
           /\ Len(batch'.task) = Len(batch'.index_query_map)
           /\ ~batch.active
              => /\ \A i \in 1..Len(batch'.queries) :
                       PrescanMiss(batch'.queries[i], batch'.kwargs)
                       <=> \E n \in 1..Len(batch'.index_query_map) :
                              batch'.index_query_map[n] = i
                 /\ \A n, m \in 1..Len(batch'.index_query_map) :
                       batch'.index_query_map[n] = batch'.index_query_map[m] => n = m]_vars

\* a batch of three queries that all missed the cache, after an earlier call
\* stored another entry: two calls are in progress in the two threads of the
\* pool and the third waits in the queue
C22_Witness ==
    /\ batch.active
    /\ batch.max_workers = PoolWorkers
    /\ DOMAIN cache # {}
    /\ Len(batch.task) = PoolBatch
    /\ Cardinality(InProgress(batch)) = PoolWorkers
    /\ batch.task[PoolBatch].pc = "queued"

\* ------------------------------------------------------------------------
\* C23
\* ------------------------------------------------------------------------
\* a query that carries nothing: the empty string, the empty map, None
EmptyQuery(q) == q \in {PStr(""), PDict(<<>>), PNone}

\* the values of the options that are not ignored, joined by "_"
OptionsSuffix(self, kwargs) ==
    LET kept == SelectSeq(kwargs.dict, LAMBDA p : p[1] \notin get_cache_ignore_keys(self))
    IN Join([i \in 1..Len(kept) |-> PyStr(kept[i][2])], "_")

HasKeptOption(self, kwargs) ==
    /\ IsDict(kwargs)
    /\ \E i \in 1..Len(kwargs.dict) : kwargs.dict[i][1] \notin get_cache_ignore_keys(self)

\* C23: _make_cache_key called with an empty query and at least one option
\* that is not ignored returns a non-empty key, and that key is the suffix
\* derived from the options and nothing else.
C23_EmptyQueryKey ==
    (/\ last.op = "key"
     /\ EmptyQuery(last.queries[1])
     /\ HasKeptOption(last.self, last.kwargs))
    => /\ last.key # ""
       /\ last.key = OptionsSuffix(last.self, last.kwargs)

\* the empty map as the query: the key starts with the text of the map
C23_Witness ==
    /\ last.op = "key"
    /\ last.queries = <<PDict(<<>>)>>
    /\ last.kwargs = PDict(<< <<"method", PStr("get_string_ids")>> >>)
    /\ OptionsSuffix(last.self, last.kwargs) = "get_string_ids"
    /\ last.key = "{}_get_string_ids"

\* ------------------------------------------------------------------------
\* C24
\* ------------------------------------------------------------------------
\* the SubQueries of a decomposed call that have no cache entry before it
Uncached(query, kwargs) ==
    SelectSeq(decompose_query(SELF, query, PyStr(KwGet(kwargs, "method")),
                              KwGet(kwargs, "option")).subqueries,
              LAMBDA sq : SubKey(SELF, sq, kwargs) \notin DOMAIN cache)

\* the identifiers of the SubQueries that have a cache entry before the call
CachedIdentifiers(query, kwargs) ==
    LET subqueries == decompose_query(SELF, query, PyStr(KwGet(kwargs, "method")),
                                      KwGet(kwargs, "option")).subqueries
    IN {subqueries[i][1] : i \in {j \in 1..Len(subqueries) :
                                     SubKey(SELF, subqueries[j], kwargs) \in DOMAIN cache}}

\* the buckets the response to the request is split into
Buckets(request, remaining) ==
    split_results_by_subquery(SELF,
        fetch(service, request, StringMethodSpec(FALSE).separator), remaining)

\* a decomposed call that went to the service and returned
DecomposedFetchStep ==
    /\ SingleStep
    /\ Decomposes(last'.queries[1], StringMethodSpec(FALSE))
    /\ Len(last'.fetched) = 1
    /\ ~last'.raised

BucketsStored(remaining, mapping, kwargs, value) ==
    /\ \A i \in 1..Len(remaining) :
          IF mapping[remaining[i][1]] # <<>>
          THEN /\ SubKey(SELF, remaining[i], kwargs) \in DOMAIN cache'
               /\ cache'[SubKey(SELF, remaining[i], kwargs)]
                    = PList(mapping[remaining[i][1]])
          ELSE SubKey(SELF, remaining[i], kwargs) \notin DOMAIN cache'
    /\ Len(value.list)
         = Cardinality(CachedIdentifiers(last'.queries[1], kwargs)
                       \cup {remaining[i][1] : i \in {j \in 1..Len(remaining) :
                                mapping[remaining[j][1]] # <<>>}})
    /\ \A i \in 1..Len(value.list) : value.list[i] # PList(<<>>)

\* C24: after a decomposed fetch_single call that called fetch(), every
\* SubQuery that had no cache entry and whose bucket is not empty has an
\* entry under its own key that holds its bucket; a SubQuery whose bucket
\* is empty has no entry and adds no element to the result.
C24_BucketsStored ==
    [][DecomposedFetchStep
        => BucketsStored(Uncached(last'.queries[1], last'.kwargs),
                         Buckets(last'.fetched[1],
                                 Uncached(last'.queries[1], last'.kwargs)),
                         last'.kwargs, last'.value)]_vars

\* P1 has an entry and P2 is answered with no item: the call returns one
\* element and leaves no entry for P2
C24_Witness ==
    /\ last.op = "single"
    /\ last.queries = <<PDict(<< <<"identifiers", ListOf(<<"P1", "P2">>)>> >>)>>
    /\ ~last.raised
    /\ Len(last.fetched) = 1
    /\ service["P2"] = "empty"
    /\ "P1_get_string_ids" \in DOMAIN cache
    /\ "P2_get_string_ids" \notin DOMAIN cache
    /\ Len(last.value.list) = 1

\* ------------------------------------------------------------------------
\* C25
\* ------------------------------------------------------------------------
\* the query _prepare_params is given by a call: the query of the caller, or
\* the merge of the SubQueries that have no cache entry
PreparedQuery(query, kwargs) ==
    IF Decomposes(query, StringMethodSpec(FALSE))
    THEN merge_dicts([i \in 1..Len(Uncached(query, kwargs)) |-> Uncached(query, kwargs)[i][2]])
    ELSE query

\* the value the query gives for a parameter, its default where it gives none
GivenValue(query, parameter) ==
    IF IsDict(query) /\ DictHas(query, parameter[1]) THEN DictGet(query, parameter[1])
    ELSE IF ~IsDict(query) /\ parameter[4] THEN query
    ELSE parameter[3]

\* the wire form of a value: the elements of a list of a groupable
\* parameter joined by the separator
WireValue(given, parameter, spec) ==
    IF IsList(given) /\ InSeq(parameter[1], spec.group_queries)
    THEN PStr(Join([j \in 1..Len(given.list) |-> PyStr(given.list[j])], spec.separator))
    ELSE given

ParamsAsDeclared(params, query, spec) ==
    \A i \in 1..Len(spec.parameters) :
       IF IsNone(GivenValue(query, spec.parameters[i]))
       THEN ~DictHas(params, spec.parameters[i][1])
       ELSE /\ DictHas(params, spec.parameters[i][1])
            /\ DictGet(params, spec.parameters[i][1])
                 = WireValue(GivenValue(query, spec.parameters[i]), spec.parameters[i], spec)
            /\ \/ IsInstance(GivenValue(query, spec.parameters[i]), spec.parameters[i][2])
               \/ /\ IsList(GivenValue(query, spec.parameters[i]))
                  /\ InSeq(spec.parameters[i][1], spec.group_queries)
                  /\ \A j \in 1..Len(GivenValue(query, spec.parameters[i]).list) :
                        IsInstance(GivenValue(query, spec.parameters[i]).list[j],
                                   spec.parameters[i][2])

\* C25: the parameters _prepare_params returns hold, for every parameter of
\* the method specification, the value of the query or else the declared
\* default, of the declared type, a list of a groupable parameter joined by
\* the separator in list order; a parameter with neither is left out.
C25_PreparedParams ==
    [][(SingleStep /\ Len(last'.fetched) = 1)
        => ParamsAsDeclared(last'.fetched[1],
                            PreparedQuery(last'.queries[1], last'.kwargs),
                            StringMethodSpec(FALSE))]_vars

\* the parameters prepared from a list of identifiers and a species that
\* is a string: the list is joined and the string is passed on
C25_Witness ==
    /\ last.op = "single"
    /\ last.queries = <<PDict(<< <<"identifiers", ListOf(<<"P1", "P2">>)>>,
                                 <<"species", PStr("human")>> >>)>>
    /\ Len(last.fetched) = 1
    /\ DictGet(last.fetched[1], "identifiers")
         = PStr("P1" \o StringMethodSpec(FALSE).separator \o "P2")
    /\ StringMethodSpec(FALSE).parameters[2] = <<"species", "int", PNone, FALSE>>
    /\ DictGet(last.fetched[1], "species") = PStr("human")

\* ------------------------------------------------------------------------
\* The session of a service: requests are sent through an HTTPAdapter built
\* with Retry(total=total_retries, status_forcelist=[500, 502, 503, 504]).
\* One plain fetch_single call for P1 on an empty cache; the server answers
\* each request with a status, with or without a Retry-After header.
\* ------------------------------------------------------------------------
total_retries == 5

status_forcelist == {500, 502, 503, 504}

\* Retry.is_retry for a GET request: a status of the forcelist, or, while
\* total is not 0, a 413, 429 or 503 that carries a Retry-After header
\* (respect_retry_after_header is left at its default)
is_retry(total, status, has_retry_after) ==
    \/ status \in status_forcelist
    \/ total # 0 /\ has_retry_after /\ status \in {413, 429, 503}

\* what the server can answer: <<status, has Retry-After>>
Answers ==
    {<<status, FALSE>> : status \in {200, 404, 429} \cup status_forcelist}
    \cup {<<429, TRUE>>}

NoSend ==
    [op |-> "send", pc |-> "sending", total |-> total_retries, answers |-> <<>>,
     raised |-> FALSE, value |-> PNone]

InitRetry ==
    /\ cache = EmptyCache
    /\ service = [id \in Ids |-> "ok"]
    /\ batch = NoBatch
    /\ last = NoSend

\* the end of fetch_single once fetch() has returned raw
SendReturn(raw, answers) ==
    /\ cache' = IF Truthy(raw)
                THEN save_cache(cache, _make_cache_key(SELF, PStr("P1"), PDict(<< <<"method", PStr("get_string_ids")>> >>)), raw)
                ELSE cache
    /\ last' = [last EXCEPT !.pc = "returned", !.answers = answers, !.value = raw]

\* the server answers the request in flight.  A retried answer costs one of
\* total and the request is sent again; when total falls below 0 the
\* adapter raises RetryError.  Any other answer is the response: fetch()
\* runs raise_for_status and returns response.json(), and it answers {} to
\* every RequestException, RetryError and HTTPError included.
Answer(answer) ==
    /\ last.op = "send"
    /\ last.pc = "sending"
    /\ IF is_retry(last.total, answer[1], answer[2])
       THEN IF last.total - 1 < 0
            THEN SendReturn(PDict(<<>>), Append(last.answers, answer))
            ELSE /\ last' = [last EXCEPT !.total = @ - 1,
                                         !.answers = Append(@, answer)]
                 /\ UNCHANGED cache
       ELSE IF answer[1] >= 400
            THEN SendReturn(PDict(<<>>), Append(last.answers, answer))
            ELSE SendReturn(PList(<<Item("P1", PInt(9606))>>), Append(last.answers, answer))
    /\ UNCHANGED <<service, batch>>

\* the caller asks again after a call that stored nothing
SendAgain ==
    /\ last.op = "send"
    /\ last.pc = "returned"
    /\ DOMAIN cache = {}
    /\ last' = NoSend
    /\ UNCHANGED <<cache, service, batch>>

NextRetry == (\E answer \in Answers : Answer(answer)) \/ SendAgain

SpecRetry == InitRetry /\ [][NextRetry]_vars

\* ------------------------------------------------------------------------
\* C26
\* ------------------------------------------------------------------------
\* the answers that were followed by another send of the request
Retried(op) == [i \in 1..(Len(op.answers) - 1) |-> op.answers[i]]

\* C26: a request answered with 500, 502, 503 or 504 is retried at most
\* total_retries times and no request is retried on another status; a call
\* whose retries are used up ends as a failure.
C26_BoundedRetry ==
    last.op = "send"
    => /\ Len(Retried(last)) <= total_retries
       /\ \A i \in 1..Len(Retried(last)) : Retried(last)[i][1] \in status_forcelist
       /\ (/\ last.pc = "returned"
           /\ Len(Retried(last)) = total_retries
           /\ last.answers[Len(last.answers)][1] \in status_forcelist)
          => last.raised

\* six answers 503 in a row: the call returns {} as if the service had
\* answered, and stores nothing
C26_Witness ==
    /\ last.op = "send"
    /\ last.pc = "returned"
    /\ last.answers = [i \in 1..(total_retries + 1) |-> <<503, FALSE>>]
    /\ last.total = 0
    /\ ~last.raised
    /\ last.value = PDict(<<>>)
    /\ DOMAIN cache = {}

\* ------------------------------------------------------------------------
\* C27
\* ------------------------------------------------------------------------
\* a call of get_string_ids on the plain branch whose values are of the
\* declared types
PlainCall(op) ==
    /\ op.op = "single"
    /\ op.kwargs = PDict(<< <<"method", PStr("get_string_ids")>> >>)
    /\ ~Decomposes(op.queries[1], StringMethodSpec(FALSE))
    /\ ~BadType(op.queries[1], op.kwargs)

\* the request of the call and the key of its cache file
RequestOf(op) == _prepare_params(op.queries[1], StringMethodSpec(FALSE), op.kwargs)

KeyOf(op) ==
    _make_cache_key(SELF, PStr(_make_identifier(op.queries[1], StringMethodSpec(FALSE))),
                    op.kwargs)

\* C27: two fetch_single calls whose requests differ in the value of a
\* parameter have different cache keys, and a call served from the cache
\* returns the response to its own request.
C27_KeysSeparateRequests ==
    [][(/\ SingleStep
        /\ PlainCall(last)
        /\ PlainCall(last')
        /\ RequestOf(last) # RequestOf(last'))
        => /\ KeyOf(last) # KeyOf(last')
           /\ (last'.fetched = <<>> /\ ~last'.raised)
              => last'.value = fetch(service, RequestOf(last'),
                                     StringMethodSpec(FALSE).separator)]_vars

\* P1 asked for species 10090 and answered, with no fetch(), by the entry
\* stored for species 9606
C27_Witness ==
    /\ last.op = "single"
    /\ last.queries = <<PDict(<< <<"identifiers", PStr("P1")>>,
                                 <<"species", PInt(10090)>> >>)>>
    /\ last.fetched = <<>>
    /\ ~last.raised
    /\ last.value = PList(<<Item("P1", PInt(9606))>>)
    /\ DOMAIN cache = {"P1_get_string_ids"}

\* ------------------------------------------------------------------------
\* C28
\* ------------------------------------------------------------------------
\* the number of results an element of the output holds: one for each
\* SubQuery where the element is the result of a decomposed query
ResultCount(element) ==
    IF IsList(element) /\ element.list # <<>>
       /\ \A m \in 1..Len(element.list) : IsList(element.list[m])
    THEN Len(element.list)
    ELSE 1

\* the number of results a query stands for: one for each identifier of its
\* SubQueries, one where it has none
UnitCount(query, kwargs) ==
    LET Count(subqueries) ==
            IF subqueries = <<>> THEN 1
            ELSE Cardinality({subqueries[j][1] : j \in 1..Len(subqueries)})
    IN Count(BatchSubqueries(SELF, query, kwargs).subqueries)

RECURSIVE SumOver(_, _)
SumOver(counts, n) == IF n = 0 THEN 0 ELSE counts[n] + SumOver(counts, n - 1)

\* C28: the sequence fetch_batch returns holds the result of each input
\* query and of each of its SubQueries at most once, so it holds no more
\* results than the batch has queries and SubQueries.
C28_AtMostOnce ==
    (last.op = "batch" /\ ~last.raised)
    => SumOver([n \in 1..Len(last.value.list) |-> ResultCount(last.value.list[n])],
               Len(last.value.list))
         <= SumOver([i \in 1..Len(last.queries) |-> UnitCount(last.queries[i], last.kwargs)],
                    Len(last.queries))

\* a batch of one query with P1 cached and P2 not: the entry of P1 comes
\* first and once more inside the result of the query
C28_Witness ==
    /\ last.op = "batch"
    /\ ~last.raised
    /\ last.queries = <<PDict(<< <<"identifiers", ListOf(<<"P1", "P2">>)>> >>)>>
    /\ last.dispatched = <<1>>
    /\ last.value = PList(<<PList(<<Item("P1", PInt(9606))>>),
                            PList(<<PList(<<Item("P1", PInt(9606))>>),
                                    PList(<<Item("P2", PInt(9606))>>)>>)>>)

\* ------------------------------------------------------------------------
\* C29
\* ------------------------------------------------------------------------
\* a decomposed call that returned one result for every SubQuery
FullDecomposedCall(op) ==
    /\ op.op = "single"
    /\ ~op.raised
    /\ Decomposes(op.queries[1], StringMethodSpec(FALSE))
    /\ Len(op.value.list)
         = Len(decompose_query(SELF, op.queries[1], PyStr(KwGet(op.kwargs, "method")),
                               KwGet(op.kwargs, "option")).subqueries)

\* C29: a decomposed fetch_single call returns the results of its
\* SubQueries in the order of the decomposition whatever the cache holds,
\* so a call and the same call repeated return the same sequence.
C29_CacheIndependent ==
    [][(/\ RepeatStep
        /\ FullDecomposedCall(last)
        /\ FullDecomposedCall(last'))
        => last'.value = last.value]_vars

\* the list [P1, P2] asked twice with only P2 cached at first: the first
\* call returns P2's result before P1's, the repeated call P1's before P2's
C29_Witness ==
    /\ last.op = "single"
    /\ last.queries = <<PDict(<< <<"identifiers", ListOf(<<"P1", "P2">>)>> >>)>>
    /\ ~last.raised
    /\ Len(last.fetched) = 1
    /\ RequestedValues(last.fetched[1]) = {"P1"}
    /\ last.value = PList(<<PList(<<Item("P2", PInt(9606))>>),
                            PList(<<Item("P1", PInt(9606))>>)>>)

\* ------------------------------------------------------------------------
\* C30
\* ------------------------------------------------------------------------
\* pool thread n runs the cache lookup of its fetch_single call in this step
WorkerLookupStep(n) ==
    /\ batch.active
    /\ batch'.active
    /\ n \in 1..Len(batch.task)
    /\ batch.task[n].pc = "queued"
    /\ batch'.task[n].pc # "queued"

\* the entries has_results reports to the lookup of pool thread n
ReportedCached(n) ==
    QueryKeys(SELF, batch.after[batch.index_query_map[n]], batch.kwargs) \cap DOMAIN cache

\* C30: every entry that has_results reports to a worker of a batch holds a
\* complete response: no worker reads a file that another worker has
\* opened and not yet written.
C30_NoPartialEntry ==
    [][\A n \in 1..MaxBatch :
          WorkerLookupStep(n)
          => /\ \A k \in ReportedCached(n) : ~NoJSON(cache[k])
             /\ ~(batch'.task[n].raised /\ batch'.task[n].value = PStr("JSONDecodeError"))]_vars

\* worker 1 has opened the file of P1 and not written it; worker 2 found
\* the file, read it and ended with JSONDecodeError
C30_Witness ==
    /\ batch.active
    /\ batch.queries = <<PStr("P1"), PDict(<< <<"identifiers", ListOf(<<"P1", "P2">>)>> >>)>>
    /\ Len(batch.task) = 2
    /\ batch.task[1].pc = "write"
    /\ cache["P1_get_string_ids"] = Truncated
    /\ batch.task[2].pc = "done"
    /\ batch.task[2].raised
    /\ batch.task[2].value = PStr("JSONDecodeError")

====
